---- MODULE Spec2Model ----
(***************************************************************************)
(* my-library: registration surfaces (scan page, search tab, series-page   *)
(* candidate modal), ISBN normalisation / extraction and candidate merge.  *)
(*                                                                         *)
(* Strings are sequences of characters; a character is a one-token TLA+    *)
(* string.  Non-ASCII characters are named: "fw0".."fw9" are the           *)
(* full-width digits U+FF10..U+FF19, "fw-" is U+FF0D, "idsp" is U+3000,    *)
(* "sup2" is U+00B2 (superscript two).                                     *)
(* null is the empty sequence for string|null values whose strings are     *)
(* never empty here (scan text, ISBN), and the atom "null" for the others. *)
(***************************************************************************)
EXTENDS Integers, Sequences, FiniteSets, TLC

\* ------------------------------------------------------------------ bounds
MaxPieces == 5
MaxTicks == 3
MaxCalls == 2
MaxCandidates == 3
MaxReloadKey == 2
MaxVolumes == 3

\* --------------------------------------------------------------- constants
RECENT_PROCESSED_ISBN_IGNORE_MILLISECONDS == 10000

NoText == << >>
Null == "null"

\* ------------------------------------------------------- character classes
AsciiDigits == {"0", "1", "2", "3", "4", "5", "6", "7", "8", "9"}

\* String.prototype.normalize("NFKC"), on the characters of the model.
NFKCChar(c) ==
  CASE c = "fw0" -> "0" [] c = "fw1" -> "1" [] c = "fw2" -> "2"
    [] c = "fw3" -> "3" [] c = "fw4" -> "4" [] c = "fw5" -> "5"
    [] c = "fw6" -> "6" [] c = "fw7" -> "7" [] c = "fw8" -> "8"
    [] c = "fw9" -> "9"
    [] c = "fw-" -> "-"
    [] c = "idsp" -> " "
    [] c = "sup2" -> "2"
    [] OTHER -> c

NFKC(s) == [i \in 1..Len(s) |-> NFKCChar(s[i])]

\* White space as String.prototype.trim and the regex class \s see it.
IsWhiteSpace(c) == c \in {" ", "idsp", "tab"}

RECURSIVE TrimStart(_)
TrimStart(s) ==
  IF s = << >> THEN << >>
  ELSE IF IsWhiteSpace(Head(s)) THEN TrimStart(Tail(s)) ELSE s

RECURSIVE TrimEnd(_)
TrimEnd(s) ==
  IF s = << >> THEN << >>
  ELSE IF IsWhiteSpace(s[Len(s)]) THEN TrimEnd(SubSeq(s, 1, Len(s) - 1)) ELSE s

Trim(s) == TrimEnd(TrimStart(s))

\* rawText.normalize("NFKC").trim()
normalizeScannedText(rawText) == Trim(NFKC(rawText))

\* /^[0-9]{13}$/.test(value)
isNormalizedIsbn(value) ==
  /\ Len(value) = 13
  /\ \A i \in 1..Len(value) : value[i] \in AsciiDigits

\* text.replaceAll("-", "")
RemoveHyphens(s) == SelectSeq(s, LAMBDA c : c # "-")

\* text.replace(/\s+/g, "")
RemoveWhiteSpaceRuns(s) == SelectSeq(s, LAMBDA c : ~IsWhiteSpace(c))

toNormalizedIsbn_truncating(rawText) ==
  LET compactText == RemoveWhiteSpaceRuns(RemoveHyphens(normalizeScannedText(rawText)))
  IN  IF isNormalizedIsbn(compactText) THEN SubSeq(compactText, 1, 12) ELSE NoText

toNormalizedIsbn_keepsWhiteSpace(rawText) ==
  LET compactText == RemoveHyphens(normalizeScannedText(rawText))
  IN  IF isNormalizedIsbn(compactText) THEN compactText ELSE NoText

toNormalizedIsbn(rawText) ==
  LET normalizedText == normalizeScannedText(rawText)
      compactText == RemoveWhiteSpaceRuns(RemoveHyphens(normalizedText))
  IN  IF isNormalizedIsbn(compactText) THEN compactText ELSE NoText

\* ----------------------------------- /[0-9][0-9\-\s]{11,30}[0-9]/g matching
InTokenClass(c) == c \in AsciiDigits \/ c = "-" \/ IsWhiteSpace(c)

TokenMinMiddle == 11
TokenMaxMiddle == 30

\* End index of the match starting at i (greedy with backtracking), 0 if none.
MatchEndAt(s, i) ==
  IF i > Len(s) \/ s[i] \notin AsciiDigits THEN 0
  ELSE LET ends == {j \in (i + TokenMinMiddle + 1)..(i + TokenMaxMiddle + 1) :
                      /\ j <= Len(s)
                      /\ s[j] \in AsciiDigits
                      /\ \A k \in (i + 1)..(j - 1) : InTokenClass(s[k])}
       IN  IF ends = {} THEN 0 ELSE CHOOSE j \in ends : \A e \in ends : e <= j

\* String.prototype.match with the g flag: leftmost matches, not overlapping.
RECURSIVE MatchAllFrom(_, _)
MatchAllFrom(s, i) ==
  IF i > Len(s) THEN << >>
  ELSE LET j == MatchEndAt(s, i)
       IN  IF j = 0 THEN MatchAllFrom(s, i + 1)
           ELSE <<SubSeq(s, i, j)>> \o MatchAllFrom(s, j + 1)

possibleIsbnTokens(normalizedScanText) == MatchAllFrom(normalizedScanText, 1)

\* for (const token of possibleIsbnTokens) { ... return first non-null }
RECURSIVE FirstNormalizedToken(_)
FirstNormalizedToken(tokens) ==
  IF tokens = << >> THEN NoText
  ELSE IF toNormalizedIsbn(Head(tokens)) # NoText THEN toNormalizedIsbn(Head(tokens))
  ELSE FirstNormalizedToken(Tail(tokens))

extractNormalizedIsbn_firstTokenOnly(scanText) ==
  LET directMatchIsbn == toNormalizedIsbn(scanText)
      tokens == possibleIsbnTokens(normalizeScannedText(scanText))
  IN  IF directMatchIsbn # NoText THEN directMatchIsbn
      ELSE IF tokens = << >> THEN NoText
      ELSE toNormalizedIsbn(tokens[1])

extractNormalizedIsbn_rawToken(scanText) ==
  LET directMatchIsbn == toNormalizedIsbn(scanText)
      tokens == possibleIsbnTokens(normalizeScannedText(scanText))
  IN  IF directMatchIsbn # NoText THEN directMatchIsbn
      ELSE IF FirstNormalizedToken(tokens) # NoText THEN Head(tokens)
      ELSE NoText

extractNormalizedIsbn(scanText) ==
  LET directMatchIsbn == toNormalizedIsbn(scanText)
  IN  IF directMatchIsbn # NoText THEN directMatchIsbn
      ELSE FirstNormalizedToken(possibleIsbnTokens(normalizeScannedText(scanText)))

\* ---------------------------------------------------------------- literals
Isbn9784088836440 == <<"9", "7", "8", "4", "0", "8", "8", "8", "3", "6", "4", "4", "0">>
IsbnX == Isbn9784088836440
IsbnY == <<"9", "7", "8", "4", "0", "8", "8", "8", "3", "6", "4", "5", "7">>

\* fragments a decoded symbol text is assembled from
Pieces ==
  { <<"9", "7", "8">>,
    <<"4", "0", "8", "8", "8", "3", "6", "4", "4", "0">>,
    <<"fw9", "fw7", "fw8">>,
    <<"0">>, <<"-">>, <<" ">>, <<"a">>, <<"sup2">> }

\* -------------------------------------------------- series-page candidates
\* SeriesCandidate: isbn is a string, volume_number is a number or null
\* (NullVolume), cover_url is a string or null (Null).  title, author and
\* publisher are read by no operation modelled here.
NullVolume == 0
VolumeNumbers == {NullVolume, 1, 2}
CoverUrls == {Null, "https://cover"}
SeriesCandidates ==
  [isbn : {IsbnX, IsbnY}, volume_number : VolumeNumbers, cover_url : CoverUrls]

pickPreferredSeriesCandidate(existingCandidate, incomingCandidate) ==
  IF existingCandidate.volume_number = NullVolume
     /\ incomingCandidate.volume_number # NullVolume
    THEN incomingCandidate
  ELSE IF /\ existingCandidate.volume_number # NullVolume
          /\ incomingCandidate.volume_number # NullVolume
          /\ incomingCandidate.volume_number < existingCandidate.volume_number
    THEN incomingCandidate
  ELSE IF existingCandidate.cover_url = Null /\ incomingCandidate.cover_url # Null
    THEN incomingCandidate
  ELSE existingCandidate

\* A Map is the sequence of its entries in insertion order.
MapHas(map, key) == \E i \in 1..Len(map) : map[i].key = key
MapGet(map, key) == map[CHOOSE i \in 1..Len(map) : map[i].key = key].value
MapSet_reinsertsAtEnd(map, key, value) ==
  Append(SelectSeq(map, LAMBDA entry : entry.key # key), [key |-> key, value |-> value])

MapSet(map, key, value) ==
  IF MapHas(map, key)
    THEN [i \in 1..Len(map) |-> IF map[i].key = key THEN [key |-> key, value |-> value]
                                ELSE map[i]]
    ELSE Append(map, [key |-> key, value |-> value])
MapValues(map) == [i \in 1..Len(map) |-> map[i].value]

\* the loop body of mergeCandidatesByIsbn
MergeStep_keyedByVolume(map, candidate) ==
  IF ~MapHas(map, candidate.volume_number)
    THEN MapSet(map, candidate.volume_number, candidate)
    ELSE MapSet(map, candidate.volume_number,
                pickPreferredSeriesCandidate(MapGet(map, candidate.volume_number), candidate))

MergeStep(map, candidate) ==
  IF ~MapHas(map, candidate.isbn)
    THEN MapSet(map, candidate.isbn, candidate)
    ELSE MapSet(map, candidate.isbn,
                pickPreferredSeriesCandidate(MapGet(map, candidate.isbn), candidate))

RECURSIVE MergeFold(_, _)
MergeFold(map, candidates) ==
  IF candidates = << >> THEN map
  ELSE MergeFold(MergeStep(map, Head(candidates)), Tail(candidates))

mergeCandidatesByIsbn(candidates) == MapValues(MergeFold(<< >>, candidates))

\* ------------------------------------------- registered volumes (page.tsx)
\* String.prototype.localeCompare on identifiers and ISO 8601 timestamps:
\* the collation puts punctuation before digits and digits before letters.
CollationOrder == <<"-", ":", "0", "1", "2", "3", "4", "5", "6", "7", "8", "9", "T", "Z">>
CollationRank(c) == CHOOSE r \in 1..Len(CollationOrder) : CollationOrder[r] = c

RECURSIVE localeCompare(_, _)
localeCompare(left, right) ==
  IF left = << >> /\ right = << >> THEN 0
  ELSE IF left = << >> THEN -1
  ELSE IF right = << >> THEN 1
  ELSE IF CollationRank(Head(left)) < CollationRank(Head(right)) THEN -1
  ELSE IF CollationRank(Head(left)) > CollationRank(Head(right)) THEN 1
  ELSE localeCompare(Tail(left), Tail(right))

IsbnZ == <<"9", "7", "8", "4", "0", "8", "8", "8", "3", "6", "4", "3", "3">>
RegisteredAt1 ==
  <<"2", "0", "2", "4", "-", "0", "1", "-", "0", "5", "T", "1", "0", ":", "0", "0", ":", "0", "0", "Z">>
RegisteredAt2 ==
  <<"2", "0", "2", "4", "-", "0", "1", "-", "1", "5", "T", "0", "9", ":", "0", "0", ":", "0", "0", "Z">>
SeriesVolumes ==
  [isbn : {IsbnX, IsbnY, IsbnZ}, volume_number : VolumeNumbers, cover_url : {Null},
   registered_at : {RegisteredAt1, RegisteredAt2}]

\* the comparator of sortSeriesVolumes
compareSeriesVolumes_noIsbn(leftVolume, rightVolume) ==
  LET leftUnknownOrder == IF leftVolume.volume_number = NullVolume THEN 1 ELSE 0
      rightUnknownOrder == IF rightVolume.volume_number = NullVolume THEN 1 ELSE 0
      volumeNumberDiff == leftVolume.volume_number - rightVolume.volume_number
  IN  IF leftUnknownOrder # rightUnknownOrder THEN leftUnknownOrder - rightUnknownOrder
      ELSE IF /\ leftVolume.volume_number # NullVolume
              /\ rightVolume.volume_number # NullVolume
              /\ volumeNumberDiff # 0
        THEN volumeNumberDiff
      ELSE localeCompare(leftVolume.registered_at, rightVolume.registered_at)

compareSeriesVolumes(leftVolume, rightVolume) ==
  LET leftUnknownOrder == IF leftVolume.volume_number = NullVolume THEN 1 ELSE 0
      rightUnknownOrder == IF rightVolume.volume_number = NullVolume THEN 1 ELSE 0
      volumeNumberDiff == leftVolume.volume_number - rightVolume.volume_number
      registeredAtDiff == localeCompare(leftVolume.registered_at, rightVolume.registered_at)
  IN  IF leftUnknownOrder # rightUnknownOrder THEN leftUnknownOrder - rightUnknownOrder
      ELSE IF /\ leftVolume.volume_number # NullVolume
              /\ rightVolume.volume_number # NullVolume
              /\ volumeNumberDiff # 0
        THEN volumeNumberDiff
      ELSE IF registeredAtDiff # 0 THEN registeredAtDiff
      ELSE localeCompare(leftVolume.isbn, rightVolume.isbn)

\* Array.prototype.sort is stable: an element goes behind the last element
\* that is not greater than it.
SortedInsert(sorted, volume) ==
  LET notGreater == {i \in 1..Len(sorted) : compareSeriesVolumes(sorted[i], volume) <= 0}
      k == IF notGreater = {} THEN 0 ELSE CHOOSE i \in notGreater : \A j \in notGreater : j <= i
  IN  SubSeq(sorted, 1, k) \o <<volume>> \o SubSeq(sorted, k + 1, Len(sorted))

RECURSIVE SortFold(_, _)
SortFold(sorted, volumes) ==
  IF volumes = << >> THEN sorted
  ELSE SortFold(SortedInsert(sorted, Head(volumes)), Tail(volumes))

sortSeriesVolumes(volumes) == SortFold(<< >>, volumes)

RECURSIVE SetAll(_, _)
SetAll(map, volumes) ==
  IF volumes = << >> THEN map
  ELSE SetAll(MapSet(map, Head(volumes).isbn, Head(volumes)), Tail(volumes))

mergeSeriesVolume_keepsBoth(currentVolumes, incomingVolume) ==
  sortSeriesVolumes(Append(currentVolumes, incomingVolume))

mergeSeriesVolume_appends(currentVolumes, incomingVolume) ==
  MapValues(MapSet(SetAll(<< >>, currentVolumes), incomingVolume.isbn, incomingVolume))

mergeSeriesVolume(currentVolumes, incomingVolume) ==
  sortSeriesVolumes(
    MapValues(MapSet(SetAll(<< >>, currentVolumes), incomingVolume.isbn, incomingVolume)))


\* ------------------------------------------------------------------- state
\* Each page is its own React tree; a behaviour follows the page that is
\* mounted (route).  A state update and the re-render it causes are one step.
VARIABLES
  route,                            \* the page that is mounted
  now, ticks,                       \* Date.now() and the number of clock steps
  \* scan page (RegisterPage)
  isCameraActive, scanResult, latestScanTextRef, confirmedIsbn, isbnErrorMessage,
  isSubmittingRegisterRef, isSubmittingRegister,
  latestProcessedIsbnRef, latestProcessedAtMillisecondsRef,
  registerRequestStatus, registerRequestMessage,
  scanCalls,                        \* running submitRegisterRequest invocations
  scanPieces,                       \* number of fragments in the decoded text
  finishedAt, lastFinishedIsbn,       \* history: finished submissions
  \* search tab (SearchTabPage)
  executedQuery, searchIsLoading, searchErrorMessage, searchCandidates,
  registeringCandidateKey, registerFeedbackByCandidateKey, isRegisteringRef,
  searchCalls,                      \* running registerCandidate invocations
  searchFetches,                    \* running executeSearch invocations
  \* series page (SeriesCandidatesSection)
  seriesCandidates, seriesIsLoading, seriesErrorMessage, reloadKey,
  selectedCandidate, seriesIsSubmittingRegister, registerResultToast,
  seriesCalls,                      \* running registerCandidate invocations
  candidateFetches,                 \* running fetchCandidates invocations
  candidatesPayload,                \* the last candidates payload received
  seriesId,                         \* the seriesId prop of both sections
  \* series page (RegisteredVolumesSection)
  initialVolumes, volumes, deletingByIsbn, deleteResult, deletingIsbnSetRef,
  deleteCalls,                      \* running deleteVolume invocations
  libraryRefreshSignal,             \* sessionStorage holds libraryRefreshSignalAt
  \* series page (DeleteSeriesVolumesButton)
  isDeleting, seriesDeleteErrorMessage, isDeletingRef,
  seriesDeleteCalls,                \* running deleteAllVolumes invocations
  \* storage (backend)
  storeSeries, storeVolumes, storeClock,
  storeResponse,                    \* the last answer of the storage API
  searchAnswer, registerAnswer,     \* answers on their way to the search tab
  \* library tab (LibraryTabPage)
  seriesList, libraryIsLoading, libraryErrorMessage, libraryReloadKey,
  searchKeyword, debouncedSearchKeyword,
  libraryMounted,                   \* the component is mounted
  libraryFetches                    \* running fetchLibrary invocations

scanVars ==
  <<isCameraActive, scanResult, latestScanTextRef, confirmedIsbn, isbnErrorMessage,
    isSubmittingRegisterRef, isSubmittingRegister,
    latestProcessedIsbnRef, latestProcessedAtMillisecondsRef,
    registerRequestStatus, registerRequestMessage, scanCalls, scanPieces,
    finishedAt, lastFinishedIsbn>>

searchVars ==
  <<executedQuery, searchIsLoading, searchErrorMessage, searchCandidates,
    registeringCandidateKey, registerFeedbackByCandidateKey, isRegisteringRef,
    searchCalls, searchFetches>>

seriesVars ==
  <<seriesCandidates, seriesIsLoading, seriesErrorMessage, reloadKey,
    selectedCandidate, seriesIsSubmittingRegister, registerResultToast,
    seriesCalls, candidateFetches, candidatesPayload, seriesId,
    initialVolumes, volumes, deletingByIsbn, deleteResult, deletingIsbnSetRef,
    deleteCalls, libraryRefreshSignal>>

volumeVars ==
  <<initialVolumes, volumes, deletingByIsbn, deleteResult, deletingIsbnSetRef, deleteCalls>>

deleteSeriesVars ==
  <<isDeleting, seriesDeleteErrorMessage, isDeletingRef, seriesDeleteCalls>>

storeVars ==
  <<storeSeries, storeVolumes, storeClock, storeResponse, searchAnswer, registerAnswer>>

libraryVars ==
  <<seriesList, libraryIsLoading, libraryErrorMessage, libraryReloadKey,
    searchKeyword, debouncedSearchKeyword, libraryMounted, libraryFetches>>

candidateVars ==
  <<seriesCandidates, seriesIsLoading, seriesErrorMessage, reloadKey,
    selectedCandidate, seriesIsSubmittingRegister, registerResultToast,
    seriesCalls, candidateFetches, candidatesPayload, seriesId>>

clockVars == <<now, ticks>>

vars == <<route, libraryVars, storeVars, deleteSeriesVars, clockVars, scanVars, searchVars, libraryRefreshSignal, seriesVars>>

Routes == {"scan", "search", "series", "volumes", "deleteSeries"}
KnownIsbns == {IsbnX, IsbnY}
Never == -1

\* useState / useRef initial values of RegisterPage
ScanInit ==
  /\ isCameraActive = FALSE
  /\ scanResult = NoText
  /\ latestScanTextRef = NoText
  /\ confirmedIsbn = NoText
  /\ isbnErrorMessage = Null
  /\ isSubmittingRegisterRef = FALSE
  /\ isSubmittingRegister = FALSE
  /\ latestProcessedIsbnRef = NoText
  /\ latestProcessedAtMillisecondsRef = 0
  /\ registerRequestStatus = "idle"
  /\ registerRequestMessage = Null
  /\ scanCalls = << >>
  /\ scanPieces = 0
  /\ finishedAt = [isbn \in KnownIsbns |-> Never]
  /\ lastFinishedIsbn = NoText

ClockInit == now = 0 /\ ticks = 0

\* sessionStorage of a new tab holds no signal; of the item only its
\* presence is read (consumeLibraryRefreshSignal)
SignalInit == libraryRefreshSignal = FALSE

\* useState / useRef initial values of DeleteSeriesVolumesButton
DeleteSeriesInit ==
  /\ isDeleting = FALSE
  /\ seriesDeleteErrorMessage = Null
  /\ isDeletingRef = FALSE
  /\ seriesDeleteCalls = << >>

\* an empty database, nothing answered yet
NoResponse == [status |-> 0, code |-> Null, body |-> {}]
NoAnswer == <<[isbn |-> NoText, owned |-> "none"]>>
StoreInit ==
  /\ storeSeries = {}
  /\ storeVolumes = {}
  /\ storeClock = 0
  /\ storeResponse = NoResponse
  /\ searchAnswer = NoAnswer
  /\ registerAnswer = 0

\* the library tab is not on the screen: no component, no state
LibraryUnmounted ==
  /\ seriesList = << >>
  /\ libraryIsLoading = TRUE
  /\ libraryErrorMessage = Null
  /\ libraryReloadKey = 0
  /\ searchKeyword = NoText
  /\ debouncedSearchKeyword = NoText
  /\ libraryMounted = FALSE
  /\ libraryFetches = << >>

TickSteps == {1, 9999}

\* time passes
Tick ==
  \E d \in TickSteps :
    /\ ticks < MaxTicks
    /\ now' = now + d
    /\ ticks' = ticks + 1
    /\ UNCHANGED <<libraryVars, route, storeVars, deleteSeriesVars, scanVars, searchVars, seriesVars>>

\* ---------------------------------------------------------------- scanning
\* startCamera, once decodeFromVideoDevice has resolved
StartCamera ==
  /\ ~isCameraActive
  /\ isCameraActive' = TRUE
  /\ isbnErrorMessage' = Null
  /\ latestScanTextRef' = NoText
  /\ UNCHANGED <<scanResult, confirmedIsbn, isSubmittingRegisterRef, isSubmittingRegister,
                 latestProcessedIsbnRef, latestProcessedAtMillisecondsRef,
                 registerRequestStatus, registerRequestMessage, scanCalls, scanPieces,
                 finishedAt, lastFinishedIsbn>>

StopCamera ==
  /\ isCameraActive
  /\ isCameraActive' = FALSE
  /\ UNCHANGED <<scanResult, latestScanTextRef, confirmedIsbn, isbnErrorMessage,
                 isSubmittingRegisterRef, isSubmittingRegister,
                 latestProcessedIsbnRef, latestProcessedAtMillisecondsRef,
                 registerRequestStatus, registerRequestMessage, scanCalls, scanPieces,
                 finishedAt, lastFinishedIsbn>>

\* the decode callback of startCamera, called with a result whose text is
\* currentScanText
DecodeCallback(currentScanText) ==
  /\ isCameraActive
  /\ IF latestScanTextRef # currentScanText
       THEN /\ latestScanTextRef' = currentScanText
            /\ scanResult' = currentScanText
            /\ LET extractedIsbn == extractNormalizedIsbn(currentScanText)
               IN  IF extractedIsbn # NoText
                     THEN /\ confirmedIsbn' = extractedIsbn
                          /\ isbnErrorMessage' = Null
                     ELSE /\ confirmedIsbn' = NoText
                          /\ isbnErrorMessage' = "ISBN_EXTRACTION_ERROR_MESSAGE"
       ELSE UNCHANGED <<latestScanTextRef, scanResult, confirmedIsbn, isbnErrorMessage>>
  /\ UNCHANGED <<isCameraActive, isSubmittingRegisterRef, isSubmittingRegister,
                 latestProcessedIsbnRef, latestProcessedAtMillisecondsRef,
                 registerRequestStatus, registerRequestMessage, scanCalls,
                 finishedAt, lastFinishedIsbn>>

\* ------------------------------------------------- scan page: registration
HttpStatuses == {201, 409, 400, 500}
ErrorCodes == {"VOLUME_ALREADY_EXISTS", "INVALID_ISBN", Null}

RemoveAt(seq, i) == SubSeq(seq, 1, i - 1) \o SubSeq(seq, i + 1, Len(seq))

\* isDuplicateWithinIgnoreWindow of submitRegisterRequest
isDuplicateWithinIgnoreWindow_noExpiry(nowMilliseconds) ==
  latestProcessedIsbnRef = confirmedIsbn

isDuplicateWithinIgnoreWindow_anyIsbn(nowMilliseconds) ==
  /\ latestProcessedIsbnRef # NoText
  /\ nowMilliseconds - latestProcessedAtMillisecondsRef
       < RECENT_PROCESSED_ISBN_IGNORE_MILLISECONDS

isDuplicateWithinIgnoreWindow(nowMilliseconds) ==
  /\ latestProcessedIsbnRef = confirmedIsbn
  /\ nowMilliseconds - latestProcessedAtMillisecondsRef
       < RECENT_PROCESSED_ISBN_IGNORE_MILLISECONDS

\* submitRegisterRequest up to its first await
submitRegisterRequest_statusKept ==
  /\ Len(scanCalls) < MaxCalls
  /\ IF isSubmittingRegisterRef
       THEN UNCHANGED <<registerRequestStatus, registerRequestMessage,
                        isSubmittingRegisterRef, isSubmittingRegister, scanCalls>>
     ELSE IF confirmedIsbn = NoText \/ ~isNormalizedIsbn(confirmedIsbn)
       THEN /\ registerRequestStatus' = "invalidIsbn"
            /\ registerRequestMessage' = "INVALID_ISBN_MESSAGE"
            /\ UNCHANGED <<isSubmittingRegisterRef, isSubmittingRegister, scanCalls>>
     ELSE IF isDuplicateWithinIgnoreWindow(now)
       THEN /\ registerRequestStatus' = "recentlyProcessed"
            /\ registerRequestMessage' = "REGISTER_IGNORED_RECENT_MESSAGE"
            /\ UNCHANGED <<isSubmittingRegisterRef, isSubmittingRegister, scanCalls>>
     ELSE /\ isSubmittingRegisterRef' = TRUE
          /\ UNCHANGED <<registerRequestStatus, registerRequestMessage>>
          /\ isSubmittingRegister' = TRUE
          /\ scanCalls' = Append(scanCalls,
               [requestIsbn |-> confirmedIsbn, stage |-> "fetch", status |-> 0])
  /\ UNCHANGED <<isCameraActive, scanResult, latestScanTextRef, confirmedIsbn,
                 isbnErrorMessage, latestProcessedIsbnRef,
                 latestProcessedAtMillisecondsRef, scanPieces, finishedAt, lastFinishedIsbn>>

submitRegisterRequest_rejectionRestartsWindow ==
  /\ Len(scanCalls) < MaxCalls
  /\ IF isSubmittingRegisterRef
       THEN UNCHANGED <<registerRequestStatus, registerRequestMessage,
                        isSubmittingRegisterRef, isSubmittingRegister, scanCalls,
                        latestProcessedAtMillisecondsRef>>
     ELSE IF confirmedIsbn = NoText \/ ~isNormalizedIsbn(confirmedIsbn)
       THEN /\ registerRequestStatus' = "invalidIsbn"
            /\ registerRequestMessage' = "INVALID_ISBN_MESSAGE"
            /\ UNCHANGED <<isSubmittingRegisterRef, isSubmittingRegister, scanCalls,
                           latestProcessedAtMillisecondsRef>>
     ELSE IF isDuplicateWithinIgnoreWindow(now)
       THEN /\ registerRequestStatus' = "recentlyProcessed"
            /\ registerRequestMessage' = "REGISTER_IGNORED_RECENT_MESSAGE"
            /\ latestProcessedAtMillisecondsRef' = now
            /\ UNCHANGED <<isSubmittingRegisterRef, isSubmittingRegister, scanCalls>>
     ELSE /\ isSubmittingRegisterRef' = TRUE
          /\ registerRequestStatus' = "idle"
          /\ registerRequestMessage' = Null
          /\ isSubmittingRegister' = TRUE
          /\ scanCalls' = Append(scanCalls,
               [requestIsbn |-> confirmedIsbn, stage |-> "fetch", status |-> 0])
          /\ UNCHANGED latestProcessedAtMillisecondsRef
  /\ UNCHANGED <<isCameraActive, scanResult, latestScanTextRef, confirmedIsbn,
                 isbnErrorMessage, latestProcessedIsbnRef,
                 scanPieces, finishedAt, lastFinishedIsbn>>

submitRegisterRequest ==
  /\ Len(scanCalls) < MaxCalls
  /\ IF isSubmittingRegisterRef
       THEN UNCHANGED <<registerRequestStatus, registerRequestMessage,
                        isSubmittingRegisterRef, isSubmittingRegister, scanCalls>>
     ELSE IF confirmedIsbn = NoText \/ ~isNormalizedIsbn(confirmedIsbn)
       THEN /\ registerRequestStatus' = "invalidIsbn"
            /\ registerRequestMessage' = "INVALID_ISBN_MESSAGE"
            /\ UNCHANGED <<isSubmittingRegisterRef, isSubmittingRegister, scanCalls>>
     ELSE IF isDuplicateWithinIgnoreWindow(now)
       THEN /\ registerRequestStatus' = "recentlyProcessed"
            /\ registerRequestMessage' = "REGISTER_IGNORED_RECENT_MESSAGE"
            /\ UNCHANGED <<isSubmittingRegisterRef, isSubmittingRegister, scanCalls>>
     ELSE /\ isSubmittingRegisterRef' = TRUE
          /\ registerRequestStatus' = "idle"
          /\ registerRequestMessage' = Null
          /\ isSubmittingRegister' = TRUE
          /\ scanCalls' = Append(scanCalls,
               [requestIsbn |-> confirmedIsbn, stage |-> "fetch", status |-> 0])
  /\ UNCHANGED <<isCameraActive, scanResult, latestScanTextRef, confirmedIsbn,
                 isbnErrorMessage, latestProcessedIsbnRef,
                 latestProcessedAtMillisecondsRef, scanPieces, finishedAt, lastFinishedIsbn>>

\* a press of the submit button, which is disabled while isSubmittingRegister
ScanSubmitClick ==
  /\ route = "scan"
  /\ ~isSubmittingRegister
  /\ submitRegisterRequest
  /\ UNCHANGED <<libraryVars, route, storeVars, deleteSeriesVars, clockVars, searchVars, seriesVars>>

\* the finally block of submitRegisterRequest, with the history of the call
ScanFinally_flagOnly(i) ==
  /\ UNCHANGED isSubmittingRegisterRef
  /\ isSubmittingRegister' = FALSE
  /\ scanCalls' = RemoveAt(scanCalls, i)
  /\ finishedAt' = [finishedAt EXCEPT ![scanCalls[i].requestIsbn] = now]
  /\ lastFinishedIsbn' = scanCalls[i].requestIsbn

ScanFinally(i) ==
  /\ isSubmittingRegisterRef' = FALSE
  /\ isSubmittingRegister' = FALSE
  /\ scanCalls' = RemoveAt(scanCalls, i)
  /\ finishedAt' = [finishedAt EXCEPT ![scanCalls[i].requestIsbn] = now]
  /\ lastFinishedIsbn' = scanCalls[i].requestIsbn

\* fetch resolves with a response: lines 341-342
ScanFetchResolve_recordsConfirmed ==
  \E i \in 1..Len(scanCalls), status \in HttpStatuses :
    /\ route = "scan"
    /\ scanCalls[i].stage = "fetch"
    /\ latestProcessedIsbnRef' = confirmedIsbn
    /\ latestProcessedAtMillisecondsRef' = now
    /\ scanCalls' = [scanCalls EXCEPT ![i].stage = "json", ![i].status = status]
    /\ UNCHANGED <<isCameraActive, scanResult, latestScanTextRef, confirmedIsbn,
                   isbnErrorMessage, isSubmittingRegisterRef, isSubmittingRegister,
                   registerRequestStatus, registerRequestMessage, scanPieces,
                   finishedAt, lastFinishedIsbn>>
    /\ UNCHANGED <<libraryVars, route, storeVars, deleteSeriesVars, clockVars, searchVars, seriesVars>>

ScanFetchResolve ==
  \E i \in 1..Len(scanCalls), status \in HttpStatuses :
    /\ route = "scan"
    /\ scanCalls[i].stage = "fetch"
    /\ latestProcessedIsbnRef' = scanCalls[i].requestIsbn
    /\ latestProcessedAtMillisecondsRef' = now
    /\ scanCalls' = [scanCalls EXCEPT ![i].stage = "json", ![i].status = status]
    /\ UNCHANGED <<isCameraActive, scanResult, latestScanTextRef, confirmedIsbn,
                   isbnErrorMessage, isSubmittingRegisterRef, isSubmittingRegister,
                   registerRequestStatus, registerRequestMessage, scanPieces,
                   finishedAt, lastFinishedIsbn>>
    /\ UNCHANGED <<libraryVars, route, storeVars, deleteSeriesVars, clockVars, searchVars, seriesVars>>

\* fetch rejects (no response arrives): the catch and finally blocks
ScanFetchReject ==
  \E i \in 1..Len(scanCalls) :
    /\ route = "scan"
    /\ scanCalls[i].stage = "fetch"
    /\ registerRequestStatus' = "failure"
    /\ registerRequestMessage' = "REGISTER_REQUEST_ERROR_MESSAGE"
    /\ ScanFinally(i)
    /\ UNCHANGED <<isCameraActive, scanResult, latestScanTextRef, confirmedIsbn,
                   isbnErrorMessage, latestProcessedIsbnRef,
                   latestProcessedAtMillisecondsRef, scanPieces>>
    /\ UNCHANGED <<libraryVars, route, storeVars, deleteSeriesVars, clockVars, searchVars, seriesVars>>

\* the status that lines 344-367 set for a response
registerOutcome_conflictIsFailure(status, code) ==
  IF status # 201
    THEN IF status = 400 /\ code = "INVALID_ISBN" THEN "invalidIsbn"
         ELSE "failure"
    ELSE "success"

registerOutcome(status, code) ==
  IF status # 201
    THEN IF status = 409 /\ code = "VOLUME_ALREADY_EXISTS" THEN "alreadyExists"
         ELSE IF status = 400 /\ code = "INVALID_ISBN" THEN "invalidIsbn"
         ELSE "failure"
    ELSE "success"

\* response.json() settles; code is extractRegisterErrorCode of the payload
\* (Null also when the body cannot be parsed): lines 344-367 and finally
submitRegisterRequestSettles(i, code) ==
  /\ scanCalls[i].stage = "json"
  /\ LET outcome == registerOutcome(scanCalls[i].status, code)
     IN  /\ registerRequestStatus' = outcome
         /\ registerRequestMessage' =
              CASE outcome = "alreadyExists" -> "REGISTER_ALREADY_EXISTS_MESSAGE"
                [] outcome = "invalidIsbn" -> "INVALID_ISBN_MESSAGE"
                [] outcome = "failure" -> "DEFAULT_REGISTER_ERROR_MESSAGE"
                [] outcome = "success" -> "REGISTER_SUCCESS_MESSAGE"
         /\ ScanFinally(i)
  /\ UNCHANGED <<isCameraActive, scanResult, latestScanTextRef, confirmedIsbn,
                 isbnErrorMessage, latestProcessedIsbnRef,
                 latestProcessedAtMillisecondsRef, scanPieces>>

ScanBodySettle ==
  \E i \in 1..Len(scanCalls), code \in ErrorCodes :
    /\ route = "scan"
    /\ submitRegisterRequestSettles(i, code)
    /\ UNCHANGED <<libraryVars, route, storeVars, deleteSeriesVars, clockVars, searchVars, seriesVars>>

\* texts the decoder delivers on the scan page
TextXFullWidth ==
  <<" ", "fw9", "fw7", "fw8", "-", "4", "0", "8", "8", "8", "3", "6", "4", "4", "0", " ">>
TextYEmbedded ==
  <<"a", " ", "9", "7", "8", "-", "4", "0", "8", "8", "8", "3", "6", "4", "5", "7">>
TextGarbage == <<"9", "7", "8", "-", "a", "b", "c">>
ScanTexts == {TextXFullWidth, TextYEmbedded, TextGarbage}

ScanStartCamera ==
  /\ route = "scan"
  /\ StartCamera
  /\ UNCHANGED <<libraryVars, route, storeVars, deleteSeriesVars, clockVars, searchVars, seriesVars>>

ScanStopCamera ==
  /\ route = "scan"
  /\ StopCamera
  /\ UNCHANGED <<libraryVars, route, storeVars, deleteSeriesVars, clockVars, searchVars, seriesVars>>

ScanDecode ==
  \E text \in ScanTexts :
    /\ route = "scan"
    /\ DecodeCallback(text)
    /\ UNCHANGED scanPieces
    /\ UNCHANGED <<libraryVars, route, storeVars, deleteSeriesVars, clockVars, searchVars, seriesVars>>

\* --------------------------------------------------------------- search tab
\* CatalogSearchCandidate: owned is true | false | "unknown", written as the
\* strings "true", "false", "unknown"; isbn is a string or null (NoText).
\* The other fields are read by no operation modelled here.
SearchPayloads ==
  { << >>,
    <<[isbn |-> IsbnX, owned |-> "false"],
      [isbn |-> NoText, owned |-> "unknown"],
      [isbn |-> IsbnY, owned |-> "true"]>>,
    <<[isbn |-> IsbnY, owned |-> "false"],
      [isbn |-> IsbnX, owned |-> "false"]>> }

Queries == {"q"}

\* the labels, written "owned" for 所持済み, "not-owned" for 未所持 and
\* "unknown" for 判定不可（ISBN不明）
getOwnedLabel(owned) ==
  IF owned = "true" THEN "owned"
  ELSE IF owned = "false" THEN "not-owned"
  ELSE "unknown"

getCandidateOwnedLabel(candidate) ==
  IF candidate.isbn = NoText THEN "unknown"
  ELSE getOwnedLabel(candidate.owned)

\* `${candidate.isbn ?? "unknown"}-${index}`; NoKey is null
getCandidateKey(candidate, index) == [isbn |-> candidate.isbn, index |-> index]
NoKey == [isbn |-> NoText, index |-> 0]

SearchInit ==
  /\ executedQuery = Null
  /\ searchIsLoading = FALSE
  /\ searchErrorMessage = Null
  /\ searchCandidates = << >>
  /\ registeringCandidateKey = NoKey
  /\ registerFeedbackByCandidateKey = {}
  /\ isRegisteringRef = FALSE
  /\ searchCalls = << >>
  /\ searchFetches = << >>

searchResultStatus ==
  IF searchIsLoading THEN "loading"
  ELSE IF searchErrorMessage # Null THEN "error"
  ELSE IF executedQuery = Null THEN "idle"
  ELSE IF Len(searchCandidates) = 0 THEN "empty"
  ELSE "success"

SetFeedback(feedback, key, tone) ==
  {f \in feedback : f.key # key} \cup {[key |-> key, tone |-> tone]}
DeleteFeedback(feedback, key) == {f \in feedback : f.key # key}

\* executeSearch up to its first await
executeSearch(searchQuery) ==
  /\ Len(searchFetches) < MaxCalls
  /\ executedQuery' = searchQuery
  /\ searchIsLoading' = TRUE
  /\ searchErrorMessage' = Null
  /\ registeringCandidateKey' = NoKey
  /\ registerFeedbackByCandidateKey' = {}
  /\ searchFetches' = Append(searchFetches, [query |-> searchQuery])
  /\ UNCHANGED <<searchCandidates, isRegisteringRef, searchCalls>>

\* handleSubmit with a non-empty query; the submit button is disabled while
\* isLoading
SearchSubmit ==
  \E q \in Queries :
    /\ route = "search"
    /\ ~searchIsLoading
    /\ executeSearch(q)
    /\ UNCHANGED <<libraryVars, route, storeVars, deleteSeriesVars, clockVars, scanVars, seriesVars>>

\* handleRetry, from the button of the error panel
SearchRetry ==
  /\ route = "search"
  /\ searchResultStatus = "error"
  /\ ~(executedQuery = Null \/ searchIsLoading)
  /\ executeSearch(executedQuery)
  /\ UNCHANGED <<libraryVars, route, storeVars, deleteSeriesVars, clockVars, scanVars, seriesVars>>

\* onChange of the keyword box: validationError and errorMessage are
\* cleared when either is set
SearchTyping ==
  /\ route = "search"
  /\ searchErrorMessage' = Null
  /\ UNCHANGED <<executedQuery, searchIsLoading, searchCandidates, registeringCandidateKey,
                 registerFeedbackByCandidateKey, isRegisteringRef, searchCalls,
                 searchFetches>>
  /\ UNCHANGED <<libraryVars, route, storeVars, deleteSeriesVars, clockVars, scanVars, seriesVars>>

\* executeSearch after the response: lines 280-285 and finally
executeSearchSucceeds(i, payload) ==
  /\ searchCandidates' = payload
  /\ searchIsLoading' = FALSE
  /\ searchFetches' = RemoveAt(searchFetches, i)
  /\ UNCHANGED <<executedQuery, searchErrorMessage, registeringCandidateKey,
                 registerFeedbackByCandidateKey, isRegisteringRef, searchCalls>>

SearchFetchSucceed ==
  \E i \in 1..Len(searchFetches), payload \in SearchPayloads :
    /\ route = "search"
    /\ executeSearchSucceeds(i, payload)
    /\ UNCHANGED <<libraryVars, route, storeVars, deleteSeriesVars, clockVars, scanVars, seriesVars>>

\* executeSearch when the request or the response fails: catch and finally
SearchFetchFail ==
  \E i \in 1..Len(searchFetches) :
    /\ route = "search"
    /\ searchCandidates' = << >>
    /\ searchErrorMessage' = "DEFAULT_SEARCH_ERROR_MESSAGE"
    /\ searchIsLoading' = FALSE
    /\ searchFetches' = RemoveAt(searchFetches, i)
    /\ UNCHANGED <<executedQuery, registeringCandidateKey,
                   registerFeedbackByCandidateKey, isRegisteringRef, searchCalls>>
    /\ UNCHANGED <<libraryVars, route, storeVars, deleteSeriesVars, clockVars, scanVars, seriesVars>>

\* the guard of registerCandidate: TRUE when the call returns at once
registerCandidateReturnsEarly_noRef(candidate) ==
  \/ candidate.owned # "false"
  \/ candidate.isbn = NoText
  \/ registeringCandidateKey # NoKey

registerCandidateReturnsEarly(candidate) ==
  \/ candidate.owned # "false"
  \/ candidate.isbn = NoText
  \/ registeringCandidateKey # NoKey
  \/ isRegisteringRef

\* registerCandidate up to its first await
registerCandidate(candidate, candidateKey) ==
  /\ Len(searchCalls) < MaxCalls
  /\ IF registerCandidateReturnsEarly(candidate)
       THEN UNCHANGED <<isRegisteringRef, registeringCandidateKey,
                        registerFeedbackByCandidateKey, searchCalls>>
       ELSE /\ isRegisteringRef' = TRUE
            /\ registeringCandidateKey' = candidateKey
            /\ registerFeedbackByCandidateKey' =
                 DeleteFeedback(registerFeedbackByCandidateKey, candidateKey)
            /\ searchCalls' = Append(searchCalls,
                 [requestIsbn |-> candidate.isbn, candidateKey |-> candidateKey])
  /\ UNCHANGED <<executedQuery, searchIsLoading, searchErrorMessage, searchCandidates,
                 searchFetches>>

\* a press of the register button of the candidate at index: the button is
\* rendered for a registrable candidate of a result list and disabled while
\* registeringCandidateKey is set
SearchRegisterClick_anyCandidate ==
  \E index \in 1..Len(searchCandidates) :
    /\ route = "search"
    /\ searchResultStatus = "success"
    /\ registeringCandidateKey = NoKey
    /\ ~isRegisteringRef
    /\ Len(searchCalls) < MaxCalls
    /\ isRegisteringRef' = TRUE
    /\ registeringCandidateKey' = getCandidateKey(searchCandidates[index], index)
    /\ registerFeedbackByCandidateKey' =
         DeleteFeedback(registerFeedbackByCandidateKey,
                        getCandidateKey(searchCandidates[index], index))
    /\ searchCalls' = Append(searchCalls,
         [requestIsbn |-> searchCandidates[index].isbn,
          candidateKey |-> getCandidateKey(searchCandidates[index], index)])
    /\ UNCHANGED <<executedQuery, searchIsLoading, searchErrorMessage, searchCandidates,
                   searchFetches>>
    /\ UNCHANGED <<libraryVars, route, storeVars, deleteSeriesVars, clockVars, scanVars, seriesVars>>

SearchRegisterClick ==
  \E index \in 1..Len(searchCandidates) :
    /\ route = "search"
    /\ searchResultStatus = "success"
    /\ searchCandidates[index].owned = "false"
    /\ searchCandidates[index].isbn # NoText
    /\ registeringCandidateKey = NoKey
    /\ registerCandidate(searchCandidates[index],
                         getCandidateKey(searchCandidates[index], index))
    /\ UNCHANGED <<libraryVars, route, storeVars, deleteSeriesVars, clockVars, scanVars, seriesVars>>

markCandidatesOwnedByIsbn_targetOnly(currentCandidates, targetCandidateKey, requestedIsbn, matchedIsbn) ==
  [currentIndex \in 1..Len(currentCandidates) |->
     LET currentCandidate == currentCandidates[currentIndex]
     IN  IF getCandidateKey(currentCandidate, currentIndex) = targetCandidateKey
           THEN [currentCandidate EXCEPT !.owned = "true"]
         ELSE currentCandidate]

markCandidatesOwnedByIsbn(currentCandidates, targetCandidateKey, requestedIsbn, matchedIsbn) ==
  [currentIndex \in 1..Len(currentCandidates) |->
     LET currentCandidate == currentCandidates[currentIndex]
     IN  IF getCandidateKey(currentCandidate, currentIndex) = targetCandidateKey
           THEN [currentCandidate EXCEPT !.owned = "true"]
         ELSE IF \/ currentCandidate.isbn = requestedIsbn
                 \/ (matchedIsbn # NoText /\ currentCandidate.isbn = matchedIsbn)
           THEN [currentCandidate EXCEPT !.owned = "true"]
         ELSE currentCandidate]

\* the finally block of registerCandidate
SearchFinally(i) ==
  /\ isRegisteringRef' = FALSE
  /\ registeringCandidateKey' =
       IF registeringCandidateKey = searchCalls[i].candidateKey THEN NoKey
       ELSE registeringCandidateKey
  /\ searchCalls' = RemoveAt(searchCalls, i)

\* the identifiers a response body reports: extractRegisteredIsbn ?? requestIsbn
\* for 201, extractRegisterConflictIsbn (null when the body has none) for 409
ReportedIsbns(status, requestIsbn) ==
  {IsbnX, IsbnY, requestIsbn} \cup (IF status = 409 THEN {NoText} ELSE {})

\* registerCandidate after a 201, or a 409 with code VOLUME_ALREADY_EXISTS
registerCandidateOwned(i, status, matchedIsbn) ==
  /\ searchCandidates' =
       markCandidatesOwnedByIsbn(searchCandidates, searchCalls[i].candidateKey,
                                 searchCalls[i].requestIsbn, matchedIsbn)
  /\ registerFeedbackByCandidateKey' =
       SetFeedback(registerFeedbackByCandidateKey, searchCalls[i].candidateKey,
                   IF status = 201 THEN "success" ELSE "info")
  /\ SearchFinally(i)
  /\ UNCHANGED <<executedQuery, searchIsLoading, searchErrorMessage, searchFetches>>

SearchRegisterOwned ==
  \E i \in 1..Len(searchCalls), status \in {201, 409} :
    \E matchedIsbn \in ReportedIsbns(status, searchCalls[i].requestIsbn) :
      /\ route = "search"
      /\ registerCandidateOwned(i, status, matchedIsbn)
      /\ UNCHANGED <<libraryVars, route, storeVars, deleteSeriesVars, clockVars, scanVars, seriesVars>>

\* the POST is answered with another error, or no response arrives
SearchRegisterFail ==
  \E i \in 1..Len(searchCalls) :
    /\ route = "search"
    /\ registerFeedbackByCandidateKey' =
         SetFeedback(registerFeedbackByCandidateKey, searchCalls[i].candidateKey, "error")
    /\ SearchFinally(i)
    /\ UNCHANGED <<executedQuery, searchIsLoading, searchErrorMessage, searchCandidates,
                   searchFetches>>
    /\ UNCHANGED <<libraryVars, route, storeVars, deleteSeriesVars, clockVars, scanVars, seriesVars>>

\* -------------------------------------- series page: registered volumes
SeriesIds == {"1", "2"}
VolumeIsbns == {IsbnX, IsbnY, IsbnZ}
NoVolume ==
  [isbn |-> NoText, volume_number |-> NullVolume, cover_url |-> Null, registered_at |-> NoText]
VolumeX1 ==
  [isbn |-> IsbnX, volume_number |-> 1, cover_url |-> Null, registered_at |-> RegisteredAt2]
VolumeY1 ==
  [isbn |-> IsbnY, volume_number |-> 1, cover_url |-> Null, registered_at |-> RegisteredAt1]
VolumeY2 ==
  [isbn |-> IsbnY, volume_number |-> 2, cover_url |-> Null, registered_at |-> RegisteredAt1]
VolumeZ ==
  [isbn |-> IsbnZ, volume_number |-> NullVolume, cover_url |-> Null,
   registered_at |-> RegisteredAt1]

\* volumes of the series as the page receives them
VolumePayloads == {<<VolumeZ, VolumeY2>>, <<VolumeY2, VolumeX1>>}
\* volumes carried by the response to a registration
ResponseVolumes == {VolumeX1, VolumeY1}

\* responses to the POST of the candidate modal
RegisterResponses ==
  [kind : {"created"}, seriesId : SeriesIds \cup {Null}, volume : ResponseVolumes \cup {NoVolume}]
    \cup [kind : {"conflict"}, seriesId : {Null}, volume : {NoVolume}]

\* deleteResult is { tone, message } or null
NoDeleteResult == [tone |-> Null, message |-> Null]

\* a page of another route: nothing of the section is running
VolumesIdle ==
  /\ initialVolumes = << >>
  /\ volumes = << >>
  /\ deletingByIsbn = {}
  /\ deleteResult = NoDeleteResult
  /\ deletingIsbnSetRef = {}
  /\ deleteCalls = << >>

\* initial values of RegisteredVolumesSection
VolumesInit ==
  /\ initialVolumes \in VolumePayloads
  /\ volumes = sortSeriesVolumes(initialVolumes)
  /\ deletingByIsbn = {}
  /\ deleteResult = NoDeleteResult
  /\ deletingIsbnSetRef = {}
  /\ deleteCalls = << >>

\* the effect on [initialVolumes]
newInitialVolumes(list) ==
  /\ initialVolumes' = list
  /\ volumes' = sortSeriesVolumes(list)

\* the page is rendered again (router.refresh) with the volumes of the series
VolumesRefreshed ==
  \E list \in VolumePayloads :
    /\ route = "volumes"
    /\ newInitialVolumes(list)
    /\ UNCHANGED <<deletingByIsbn, deleteResult, deletingIsbnSetRef, deleteCalls>>
    /\ UNCHANGED <<libraryVars, route, storeVars, deleteSeriesVars, clockVars, scanVars, searchVars, libraryRefreshSignal, seriesId>>
    /\ UNCHANGED <<seriesCandidates, seriesIsLoading, seriesErrorMessage, reloadKey,
                   selectedCandidate, seriesIsSubmittingRegister, registerResultToast,
                   seriesCalls, candidateFetches, candidatesPayload>>

\* the listener given to subscribeSeriesVolumeRegistered: the next volumes
onSeriesVolumeRegistered(detail) ==
  IF detail.seriesId # seriesId THEN volumes
  ELSE mergeSeriesVolume(volumes, detail.volume)

\* a series-volume-registered event reaches the section
VolumeRegisteredSignal ==
  \E detail \in [seriesId : SeriesIds, volume : ResponseVolumes] :
    /\ route = "volumes"
    /\ volumes' = onSeriesVolumeRegistered(detail)
    /\ UNCHANGED <<initialVolumes, deletingByIsbn, deleteResult, deletingIsbnSetRef,
                   deleteCalls>>
    /\ UNCHANGED <<libraryVars, route, storeVars, deleteSeriesVars, clockVars, scanVars, searchVars, libraryRefreshSignal, seriesId>>
    /\ UNCHANGED <<seriesCandidates, seriesIsLoading, seriesErrorMessage, reloadKey,
                   selectedCandidate, seriesIsSubmittingRegister, registerResultToast,
                   seriesCalls, candidateFetches, candidatesPayload>>

\* deleteVolume up to its first await
deleteVolume(targetVolume, shouldDelete) ==
  LET isbn == targetVolume.isbn
  IN  /\ Len(deleteCalls) < MaxCalls
      /\ IF isbn \in deletingIsbnSetRef \/ ~shouldDelete
           THEN UNCHANGED <<deletingByIsbn, deleteResult, deletingIsbnSetRef, deleteCalls>>
           ELSE /\ deletingIsbnSetRef' = deletingIsbnSetRef \cup {isbn}
                /\ deleteResult' = NoDeleteResult
                /\ deletingByIsbn' = deletingByIsbn \cup {isbn}
                /\ deleteCalls' = Append(deleteCalls, [isbn |-> isbn])
      /\ UNCHANGED <<initialVolumes, volumes>>

\* a press of the delete button of a volume, disabled while that volume is
\* being deleted, and the answer to window.confirm
VolumeDeleteClick_unlocked ==
  \E i \in 1..Len(volumes), shouldDelete \in BOOLEAN :
    /\ route = "volumes"
    /\ Len(deleteCalls) < MaxCalls
    /\ IF ~shouldDelete
         THEN UNCHANGED <<deletingByIsbn, deleteResult, deletingIsbnSetRef, deleteCalls>>
         ELSE /\ deletingIsbnSetRef' = deletingIsbnSetRef \cup {volumes[i].isbn}
              /\ deleteResult' = NoDeleteResult
              /\ deletingByIsbn' = deletingByIsbn \cup {volumes[i].isbn}
              /\ deleteCalls' = Append(deleteCalls, [isbn |-> volumes[i].isbn])
    /\ UNCHANGED <<initialVolumes, volumes>>
    /\ UNCHANGED <<libraryVars, route, storeVars, deleteSeriesVars, clockVars, scanVars, searchVars, libraryRefreshSignal, seriesId>>
    /\ UNCHANGED <<seriesCandidates, seriesIsLoading, seriesErrorMessage, reloadKey,
                   selectedCandidate, seriesIsSubmittingRegister, registerResultToast,
                   seriesCalls, candidateFetches, candidatesPayload>>

VolumeDeleteClick ==
  \E i \in 1..Len(volumes), shouldDelete \in BOOLEAN :
    /\ route = "volumes"
    /\ volumes[i].isbn \notin deletingByIsbn
    /\ deleteVolume(volumes[i], shouldDelete)
    /\ UNCHANGED <<libraryVars, route, storeVars, deleteSeriesVars, clockVars, scanVars, searchVars, libraryRefreshSignal, seriesId>>
    /\ UNCHANGED <<seriesCandidates, seriesIsLoading, seriesErrorMessage, reloadKey,
                   selectedCandidate, seriesIsSubmittingRegister, registerResultToast,
                   seriesCalls, candidateFetches, candidatesPayload>>

\* the finally block of deleteVolume
VolumeDeleteFinally(i) ==
  /\ deletingIsbnSetRef' = deletingIsbnSetRef \ {deleteCalls[i].isbn}
  /\ deletingByIsbn' = deletingByIsbn \ {deleteCalls[i].isbn}
  /\ deleteCalls' = RemoveAt(deleteCalls, i)

\* answers to DELETE /api/volumes/{isbn} that end the call without an error:
\* 200 with the identifier the body reports (extractDeletedIsbn, null when
\* the body has none), or 404 with code VOLUME_NOT_FOUND
DeleteVolumeResponses ==
  [kind : {"deleted"}, isbn : VolumeIsbns \cup {NoText}]
    \cup [kind : {"notFound"}, isbn : {NoText}]

deleteVolumeSettles_notFoundIsSilent(i, response) ==
  LET isbn == deleteCalls[i].isbn
      deletedIsbn == IF response.isbn = NoText THEN isbn ELSE response.isbn
  IN  /\ IF response.kind = "notFound"
           THEN UNCHANGED <<volumes, deleteResult, libraryRefreshSignal>>
           ELSE /\ volumes' =
                     SelectSeq(volumes,
                               LAMBDA currentVolume : /\ currentVolume.isbn # isbn
                                                      /\ currentVolume.isbn # deletedIsbn)
                /\ deleteResult' = [tone |-> "success", message |-> "deleted"]
                /\ libraryRefreshSignal' = TRUE
      /\ VolumeDeleteFinally(i)
      /\ UNCHANGED initialVolumes

\* deleteVolume after such an answer: lines 301-338 and finally
deleteVolumeSettles_truncates(i, response) ==
  LET isbn == deleteCalls[i].isbn
      kept == {k \in 1..Len(volumes) : \A j \in 1..k : volumes[j].isbn # isbn}
  IN  /\ volumes' = SubSeq(volumes, 1, Cardinality(kept))
      /\ deleteResult' =
           [tone |-> "success",
            message |-> IF response.kind = "notFound" THEN "alreadyDeleted" ELSE "deleted"]
      /\ libraryRefreshSignal' = TRUE
      /\ VolumeDeleteFinally(i)
      /\ UNCHANGED initialVolumes

deleteVolumeSettles(i, response) ==
  LET isbn == deleteCalls[i].isbn
      deletedIsbn == IF response.isbn = NoText THEN isbn ELSE response.isbn
  IN  /\ IF response.kind = "notFound"
           THEN /\ volumes' =
                     SelectSeq(volumes, LAMBDA currentVolume : currentVolume.isbn # isbn)
                /\ deleteResult' = [tone |-> "success", message |-> "alreadyDeleted"]
           ELSE /\ volumes' =
                     SelectSeq(volumes,
                               LAMBDA currentVolume : /\ currentVolume.isbn # isbn
                                                      /\ currentVolume.isbn # deletedIsbn)
                /\ deleteResult' = [tone |-> "success", message |-> "deleted"]
      /\ libraryRefreshSignal' = TRUE
      /\ VolumeDeleteFinally(i)
      /\ UNCHANGED initialVolumes

VolumeDeleteDone ==
  \E i \in 1..Len(deleteCalls), response \in DeleteVolumeResponses :
    /\ route = "volumes"
    /\ deleteVolumeSettles(i, response)
    /\ UNCHANGED <<libraryVars, route, storeVars, deleteSeriesVars, clockVars, scanVars, searchVars, seriesId>>
    /\ UNCHANGED <<seriesCandidates, seriesIsLoading, seriesErrorMessage, reloadKey,
                   selectedCandidate, seriesIsSubmittingRegister, registerResultToast,
                   seriesCalls, candidateFetches, candidatesPayload>>

\* the DELETE is answered with another error, or no response arrives
VolumeDeleteFail ==
  \E i \in 1..Len(deleteCalls) :
    /\ route = "volumes"
    /\ deleteResult' = [tone |-> "error", message |-> "DEFAULT_DELETE_ERROR_MESSAGE"]
    /\ VolumeDeleteFinally(i)
    /\ UNCHANGED <<initialVolumes, volumes>>
    /\ UNCHANGED <<libraryVars, route, storeVars, deleteSeriesVars, clockVars, scanVars, searchVars, libraryRefreshSignal, seriesId>>
    /\ UNCHANGED <<seriesCandidates, seriesIsLoading, seriesErrorMessage, reloadKey,
                   selectedCandidate, seriesIsSubmittingRegister, registerResultToast,
                   seriesCalls, candidateFetches, candidatesPayload>>

\* ------------------------------------ series page: delete all volumes
\* answers to DELETE /api/series/{id}/volumes that end the call without an
\* error: 200, or 404 with code SERIES_NOT_FOUND
DeleteSeriesResponses == {"deleted", "notFound"}

\* deleteAllVolumes up to its first await; window.confirm answers shouldDelete
deleteAllVolumes(shouldDelete) ==
  /\ Len(seriesDeleteCalls) < MaxCalls
  /\ IF isDeletingRef \/ ~shouldDelete
       THEN UNCHANGED <<isDeleting, seriesDeleteErrorMessage, isDeletingRef,
                        seriesDeleteCalls>>
       ELSE /\ isDeletingRef' = TRUE
            /\ isDeleting' = TRUE
            /\ seriesDeleteErrorMessage' = Null
            /\ seriesDeleteCalls' = Append(seriesDeleteCalls, [seriesId |-> seriesId])

\* a press of the button, which is disabled while isDeleting
SeriesDeleteClick ==
  \E shouldDelete \in BOOLEAN :
    /\ route = "deleteSeries"
    /\ ~isDeleting
    /\ deleteAllVolumes(shouldDelete)
    /\ UNCHANGED <<libraryVars, route, storeVars, clockVars, scanVars, searchVars, seriesVars>>

\* the finally block of deleteAllVolumes
SeriesDeleteFinally(i) ==
  /\ isDeletingRef' = FALSE
  /\ isDeleting' = FALSE
  /\ seriesDeleteCalls' = RemoveAt(seriesDeleteCalls, i)

\* deleteAllVolumes after such an answer: lines 51-59 and 70-72, finally;
\* router.replace("/library") leaves the page
deleteAllVolumesSettles_notFoundStays(i, response) ==
  /\ IF response = "notFound"
       THEN UNCHANGED <<libraryRefreshSignal, route>>
       ELSE libraryRefreshSignal' = TRUE /\ route' = "library"
  /\ SeriesDeleteFinally(i)
  /\ UNCHANGED seriesDeleteErrorMessage

deleteAllVolumesSettles(i, response) ==
  /\ libraryRefreshSignal' = TRUE
  /\ route' = "library"
  /\ SeriesDeleteFinally(i)
  /\ UNCHANGED seriesDeleteErrorMessage

SeriesDeleteDone ==
  \E i \in 1..Len(seriesDeleteCalls), response \in DeleteSeriesResponses :
    /\ route = "deleteSeries"
    /\ deleteAllVolumesSettles(i, response)
    /\ UNCHANGED <<libraryVars, storeVars, clockVars, scanVars, searchVars>>
    /\ UNCHANGED <<seriesCandidates, seriesIsLoading, seriesErrorMessage, reloadKey,
                   selectedCandidate, seriesIsSubmittingRegister, registerResultToast,
                   seriesCalls, candidateFetches, candidatesPayload, seriesId, volumeVars>>

\* the DELETE is answered with another error, or no response arrives
SeriesDeleteFail ==
  \E i \in 1..Len(seriesDeleteCalls) :
    /\ route = "deleteSeries"
    /\ seriesDeleteErrorMessage' = "DEFAULT_DELETE_ERROR_MESSAGE"
    /\ SeriesDeleteFinally(i)
    /\ UNCHANGED <<libraryVars, route, storeVars, clockVars, scanVars, searchVars, seriesVars>>

\* ---------------------------------------------- series page: candidates
\* payloads of GET /api/series/{id}/candidates
CandidatePayloads ==
  { << >>,
    <<[isbn |-> IsbnX, volume_number |-> NullVolume, cover_url |-> Null],
      [isbn |-> IsbnY, volume_number |-> 1, cover_url |-> Null],
      [isbn |-> IsbnX, volume_number |-> 2, cover_url |-> "https://cover"]>>,
    <<[isbn |-> IsbnY, volume_number |-> 1, cover_url |-> "https://cover"]>> }

NoCandidate == [isbn |-> NoText, volume_number |-> NullVolume, cover_url |-> Null]

\* initial values of SeriesCandidatesSection and the first run of the
\* fetch effect
SeriesInit ==
  /\ seriesCandidates = << >>
  /\ seriesIsLoading = TRUE
  /\ seriesErrorMessage = Null
  /\ reloadKey = 0
  /\ selectedCandidate = NoCandidate
  /\ seriesIsSubmittingRegister = FALSE
  /\ registerResultToast = Null
  /\ seriesCalls = << >>
  /\ candidateFetches = <<[aborted |-> FALSE]>>
  /\ candidatesPayload = << >>
  /\ seriesId = "1"

\* a page of another route: nothing of the section is running
SeriesIdle ==
  /\ seriesCandidates = << >>
  /\ seriesIsLoading = TRUE
  /\ seriesErrorMessage = Null
  /\ reloadKey = 0
  /\ selectedCandidate = NoCandidate
  /\ seriesIsSubmittingRegister = FALSE
  /\ registerResultToast = Null
  /\ seriesCalls = << >>
  /\ candidateFetches = << >>
  /\ candidatesPayload = << >>
  /\ seriesId = "1"

\* the effect on [reloadKey, seriesId]: clean-up of the previous run, then
\* fetchCandidates up to its first await
RerunFetchEffect ==
  /\ candidateFetches' =
       Append([i \in 1..Len(candidateFetches) |-> [aborted |-> TRUE]], [aborted |-> FALSE])
  /\ seriesIsLoading' = TRUE
  /\ seriesErrorMessage' = Null
  /\ selectedCandidate' = NoCandidate

\* fetchCandidates of a run that was cleaned up: every branch returns
SeriesFetchAborted ==
  \E i \in 1..Len(candidateFetches) :
    /\ route = "series"
    /\ candidateFetches[i].aborted
    /\ candidateFetches' = RemoveAt(candidateFetches, i)
    /\ UNCHANGED <<seriesCandidates, seriesIsLoading, seriesErrorMessage, reloadKey,
                   selectedCandidate, seriesIsSubmittingRegister, registerResultToast,
                   seriesCalls, candidatesPayload>>
    /\ UNCHANGED <<libraryVars, route, storeVars, deleteSeriesVars, clockVars, scanVars, searchVars, libraryRefreshSignal, seriesId, volumeVars>>

\* fetchCandidates with a well-formed payload: lines 332-341 and finally
fetchCandidatesSucceeds(i, payload) ==
  /\ ~candidateFetches[i].aborted
  /\ candidatesPayload' = payload
  /\ seriesCandidates' = mergeCandidatesByIsbn(payload)
  /\ seriesIsLoading' = FALSE
  /\ candidateFetches' = RemoveAt(candidateFetches, i)
  /\ UNCHANGED <<seriesErrorMessage, reloadKey, selectedCandidate,
                 seriesIsSubmittingRegister, registerResultToast, seriesCalls>>

SeriesFetchSucceed ==
  \E i \in 1..Len(candidateFetches), payload \in CandidatePayloads :
    /\ route = "series"
    /\ fetchCandidatesSucceeds(i, payload)
    /\ UNCHANGED <<libraryVars, route, storeVars, deleteSeriesVars, clockVars, scanVars, searchVars, libraryRefreshSignal, seriesId, volumeVars>>

\* fetchCandidates when the request fails or the payload is malformed
SeriesFetchFail ==
  \E i \in 1..Len(candidateFetches) :
    /\ route = "series"
    /\ ~candidateFetches[i].aborted
    /\ seriesCandidates' = << >>
    /\ seriesErrorMessage' = "DEFAULT_FETCH_ERROR_MESSAGE"
    /\ seriesIsLoading' = FALSE
    /\ candidateFetches' = RemoveAt(candidateFetches, i)
    /\ UNCHANGED <<reloadKey, selectedCandidate, seriesIsSubmittingRegister,
                   registerResultToast, seriesCalls, candidatesPayload>>
    /\ UNCHANGED <<libraryVars, route, storeVars, deleteSeriesVars, clockVars, scanVars, searchVars, libraryRefreshSignal, seriesId, volumeVars>>

\* the type guard applied to every element of the payload: of its tests
\* only typeof value.isbn === "string" can fail on the values modelled
isSeriesCandidate(value) == value.isbn # NoText

\* fetchCandidates once response.json() has settled with an array
fetchCandidatesSettles(i, payload) ==
  /\ ~candidateFetches[i].aborted
  /\ candidatesPayload' = payload
  /\ IF \A k \in 1..Len(payload) : isSeriesCandidate(payload[k])
       THEN /\ seriesCandidates' = mergeCandidatesByIsbn(payload)
            /\ UNCHANGED seriesErrorMessage
       ELSE /\ seriesCandidates' = << >>
            /\ seriesErrorMessage' = "DEFAULT_FETCH_ERROR_MESSAGE"
  /\ seriesIsLoading' = FALSE
  /\ candidateFetches' = RemoveAt(candidateFetches, i)
  /\ UNCHANGED <<reloadKey, selectedCandidate, seriesIsSubmittingRegister,
                 registerResultToast, seriesCalls>>

\* what the section renders
seriesView ==
  IF seriesIsLoading THEN "loading"
  ELSE IF seriesErrorMessage # Null THEN "error"
  ELSE IF Len(seriesCandidates) = 0 THEN "empty"
  ELSE "list"

\* the retry button of the error panel
SeriesRetry ==
  /\ route = "series"
  /\ seriesView = "error"
  /\ reloadKey + Len(seriesCalls) < MaxReloadKey
  /\ reloadKey' = reloadKey + 1
  /\ RerunFetchEffect
  /\ UNCHANGED <<seriesCandidates, seriesIsSubmittingRegister, registerResultToast,
                 seriesCalls, candidatesPayload>>
  /\ UNCHANGED <<libraryVars, route, storeVars, deleteSeriesVars, clockVars, scanVars, searchVars, libraryRefreshSignal, seriesId, volumeVars>>

\* a press on a candidate card
SeriesSelectCandidate ==
  \E i \in 1..Len(seriesCandidates) :
    /\ route = "series"
    /\ seriesView = "list"
    /\ selectedCandidate = NoCandidate
    /\ selectedCandidate' = seriesCandidates[i]
    /\ UNCHANGED <<seriesCandidates, seriesIsLoading, seriesErrorMessage, reloadKey,
                   seriesIsSubmittingRegister, registerResultToast, seriesCalls,
                   candidateFetches, candidatesPayload>>
    /\ UNCHANGED <<libraryVars, route, storeVars, deleteSeriesVars, clockVars, scanVars, searchVars, libraryRefreshSignal, seriesId, volumeVars>>

\* closeCandidateModal, and Escape
SeriesCloseModal ==
  /\ route = "series"
  /\ seriesView = "list"
  /\ selectedCandidate # NoCandidate
  /\ ~seriesIsSubmittingRegister
  /\ selectedCandidate' = NoCandidate
  /\ UNCHANGED <<seriesCandidates, seriesIsLoading, seriesErrorMessage, reloadKey,
                 seriesIsSubmittingRegister, registerResultToast, seriesCalls,
                 candidateFetches, candidatesPayload>>
  /\ UNCHANGED <<libraryVars, route, storeVars, deleteSeriesVars, clockVars, scanVars, searchVars, libraryRefreshSignal, seriesId, volumeVars>>

\* registerCandidate of the modal up to its first await
seriesRegisterCandidate ==
  /\ Len(seriesCalls) < MaxCalls
  /\ IF selectedCandidate = NoCandidate \/ seriesIsSubmittingRegister
       THEN UNCHANGED <<seriesIsSubmittingRegister, seriesCalls>>
       ELSE /\ seriesIsSubmittingRegister' = TRUE
            /\ seriesCalls' = Append(seriesCalls,
                                     [targetCandidate |-> selectedCandidate,
                                      seriesId |-> seriesId])
  /\ UNCHANGED <<seriesCandidates, seriesIsLoading, seriesErrorMessage, reloadKey,
                 selectedCandidate, registerResultToast, candidateFetches,
                 candidatesPayload>>

\* a press of the register button of the modal, disabled while
\* isSubmittingRegister
SeriesRegisterClick ==
  /\ route = "series"
  /\ seriesView = "list"
  /\ selectedCandidate # NoCandidate
  /\ ~seriesIsSubmittingRegister
  /\ reloadKey + Len(seriesCalls) < MaxReloadKey
  /\ seriesRegisterCandidate
  /\ UNCHANGED <<libraryVars, route, storeVars, deleteSeriesVars, clockVars, scanVars, searchVars, libraryRefreshSignal, seriesId, volumeVars>>

\* the POST is answered 201, or 409 with code VOLUME_ALREADY_EXISTS: the
\* candidate leaves the list, the modal closes, the list is fetched again; a
\* 201 for the section's series with a well-formed volume is published to
\* the listener of RegisteredVolumesSection
registerCandidateSettles(i, response) ==
  LET call == seriesCalls[i]
      published ==
        /\ response.kind = "created"
        /\ response.seriesId = call.seriesId
        /\ response.volume # NoVolume
  IN  /\ registerResultToast' = IF response.kind = "created" THEN "success" ELSE "info"
      /\ seriesCandidates' =
           SelectSeq(seriesCandidates,
                     LAMBDA candidate : candidate.isbn # call.targetCandidate.isbn)
      /\ reloadKey' = reloadKey + 1
      /\ RerunFetchEffect
      /\ volumes' =
           IF published
             THEN onSeriesVolumeRegistered([seriesId |-> response.seriesId,
                                            volume |-> response.volume])
             ELSE volumes
      /\ libraryRefreshSignal' = (libraryRefreshSignal \/ response.kind = "created")
      /\ seriesIsSubmittingRegister' = FALSE
      /\ seriesCalls' = RemoveAt(seriesCalls, i)
      /\ UNCHANGED <<candidatesPayload, seriesId, initialVolumes, deletingByIsbn,
                     deleteResult, deletingIsbnSetRef, deleteCalls>>

SeriesRegisterDone ==
  \E i \in 1..Len(seriesCalls), response \in RegisterResponses :
    /\ route = "series"
    /\ registerCandidateSettles(i, response)
    /\ UNCHANGED <<libraryVars, route, storeVars, deleteSeriesVars, clockVars, scanVars, searchVars>>

\* the POST is answered with another error, or no response arrives
SeriesRegisterFail ==
  \E i \in 1..Len(seriesCalls) :
    /\ route = "series"
    /\ registerResultToast' = "error"
    /\ seriesIsSubmittingRegister' = FALSE
    /\ seriesCalls' = RemoveAt(seriesCalls, i)
    /\ UNCHANGED <<seriesCandidates, seriesIsLoading, seriesErrorMessage, reloadKey,
                   selectedCandidate, candidateFetches, candidatesPayload>>
    /\ UNCHANGED <<libraryVars, route, storeVars, deleteSeriesVars, clockVars, scanVars, searchVars, libraryRefreshSignal, seriesId, volumeVars>>

\* the toast is closed, by its button or by its timer
SeriesToastGone ==
  /\ route = "series"
  /\ registerResultToast # Null
  /\ registerResultToast' = Null
  /\ UNCHANGED <<seriesCandidates, seriesIsLoading, seriesErrorMessage, reloadKey,
                 selectedCandidate, seriesIsSubmittingRegister, seriesCalls,
                 candidateFetches, candidatesPayload>>
  /\ UNCHANGED <<libraryVars, route, storeVars, deleteSeriesVars, clockVars, scanVars, searchVars, libraryRefreshSignal, seriesId, volumeVars>>

\* ------------------------------------------------------ storage (backend)
\* Volume rows are { isbn, series_id, volume_number, cover_url,
\* registered_at }; registered_at is the value of a clock that advances with
\* every insert.  A Series row is written as its id.
StoreCovers == {Null, "https://cover/a", "https://cover/b"}

\* what the catalogue lookup of a registration reports for the book
BookRecords ==
  [series_id : SeriesIds, volume_number : VolumeNumbers, cover_url : StoreCovers]

StoredIsbns == {volume.isbn : volume \in storeVolumes}
VolumesOfSeries(series_id) == {volume \in storeVolumes : volume.series_id = series_id}

\* POST /api/volumes
insertVolume_uniquePerSeries(isbn, book) ==
  IF \E volume \in VolumesOfSeries(book.series_id) : volume.isbn = isbn
    THEN /\ storeResponse' = [status |-> 409, code |-> "VOLUME_ALREADY_EXISTS", body |-> {}]
         /\ UNCHANGED <<storeSeries, storeVolumes, storeClock>>
    ELSE /\ storeVolumes' = storeVolumes \cup
              {[isbn |-> isbn, series_id |-> book.series_id,
                volume_number |-> book.volume_number, cover_url |-> book.cover_url,
                registered_at |-> storeClock + 1]}
         /\ storeSeries' = storeSeries \cup {book.series_id}
         /\ storeClock' = storeClock + 1
         /\ storeResponse' = [status |-> 201, code |-> Null, body |-> {}]

insertVolume_noSeriesRow(isbn, book) ==
  IF isbn \in StoredIsbns
    THEN /\ storeResponse' = [status |-> 409, code |-> "VOLUME_ALREADY_EXISTS", body |-> {}]
         /\ UNCHANGED <<storeSeries, storeVolumes, storeClock>>
    ELSE /\ storeVolumes' = storeVolumes \cup
              {[isbn |-> isbn, series_id |-> book.series_id,
                volume_number |-> book.volume_number, cover_url |-> book.cover_url,
                registered_at |-> storeClock + 1]}
         /\ UNCHANGED storeSeries
         /\ storeClock' = storeClock + 1
         /\ storeResponse' = [status |-> 201, code |-> Null, body |-> {}]

insertVolume(isbn, book) ==
  IF isbn \in StoredIsbns
    THEN /\ storeResponse' = [status |-> 409, code |-> "VOLUME_ALREADY_EXISTS", body |-> {}]
         /\ UNCHANGED <<storeSeries, storeVolumes, storeClock>>
    ELSE /\ storeVolumes' = storeVolumes \cup
              {[isbn |-> isbn, series_id |-> book.series_id,
                volume_number |-> book.volume_number, cover_url |-> book.cover_url,
                registered_at |-> storeClock + 1]}
         /\ storeSeries' = storeSeries \cup {book.series_id}
         /\ storeClock' = storeClock + 1
         /\ storeResponse' = [status |-> 201, code |-> Null, body |-> {}]

\* DELETE /api/volumes/{isbn}: the Volume row only, the Series row stays
deleteVolumeByIdentifier(isbn) ==
  /\ IF isbn \in StoredIsbns
       THEN /\ storeVolumes' = {volume \in storeVolumes : volume.isbn # isbn}
            /\ storeResponse' = [status |-> 200, code |-> Null, body |-> {}]
       ELSE /\ UNCHANGED storeVolumes
            /\ storeResponse' = [status |-> 404, code |-> "VOLUME_NOT_FOUND", body |-> {}]
  /\ UNCHANGED <<storeSeries, storeClock>>

\* DELETE /api/series/{series_id}/volumes: the Series row and its Volume rows
deleteSeriesWithVolumes(series_id) ==
  /\ IF series_id \in storeSeries
       THEN /\ storeSeries' = storeSeries \ {series_id}
            /\ storeVolumes' = storeVolumes \ VolumesOfSeries(series_id)
            /\ storeResponse' = [status |-> 200, code |-> Null, body |-> {}]
       ELSE /\ UNCHANGED <<storeSeries, storeVolumes>>
            /\ storeResponse' = [status |-> 404, code |-> "SERIES_NOT_FOUND", body |-> {}]
  /\ UNCHANGED storeClock

\* the volume of the set that was registered first
Oldest(rows) ==
  CHOOSE volume \in rows : \A other \in rows : volume.registered_at <= other.registered_at

\* representative_cover_url of GET /api/library
representativeCoverUrl_oldestVolume(series_id) ==
  LET rows == VolumesOfSeries(series_id)
      first == {volume \in rows : volume.volume_number = 1 /\ volume.cover_url # Null}
  IN  IF first # {} THEN Oldest(first).cover_url
      ELSE IF rows # {} THEN Oldest(rows).cover_url
      ELSE Null

representativeCoverUrl(series_id) ==
  LET rows == VolumesOfSeries(series_id)
      first == {volume \in rows : volume.volume_number = 1 /\ volume.cover_url # Null}
      covered == {volume \in rows : volume.cover_url # Null}
  IN  IF first # {} THEN Oldest(first).cover_url
      ELSE IF covered # {} THEN Oldest(covered).cover_url
      ELSE Null

\* GET /api/library
listLibrary ==
  /\ storeResponse' =
       [status |-> 200, code |-> Null,
        body |-> {[id |-> series_id,
                   representative_cover_url |-> representativeCoverUrl(series_id)] :
                  series_id \in storeSeries}]
  /\ UNCHANGED <<storeSeries, storeVolumes, storeClock>>

\* owned of GET /api/catalog/search
classifyOwned_unknownIsNotOwned(isbn) ==
  IF isbn \in StoredIsbns THEN "true" ELSE "false"

classifyOwned(isbn) ==
  IF isbn = NoText THEN "unknown"
  ELSE IF isbn \in StoredIsbns THEN "true"
  ELSE "false"

\* ------------------------------------------------- specification: storage
\* Requests reach the storage API one after the other.
MaxRegistrations == 3

StoreFrame ==
  UNCHANGED <<libraryVars, route, deleteSeriesVars, clockVars, scanVars, searchVars, seriesVars,
              searchAnswer, registerAnswer>>

StoreRegister ==
  \E isbn \in VolumeIsbns, book \in BookRecords :
    /\ storeClock < MaxRegistrations
    /\ insertVolume(isbn, book)
    /\ StoreFrame

StoreDeleteVolume ==
  \E isbn \in VolumeIsbns : deleteVolumeByIdentifier(isbn) /\ StoreFrame

StoreDeleteSeries ==
  \E series_id \in SeriesIds : deleteSeriesWithVolumes(series_id) /\ StoreFrame

StoreListLibrary == listLibrary /\ StoreFrame

InitStore ==
  /\ route = "library"
  /\ ClockInit
  /\ SignalInit
  /\ DeleteSeriesInit
  /\ StoreInit
  /\ LibraryUnmounted
  /\ ScanInit
  /\ SearchInit
  /\ SeriesIdle
  /\ VolumesIdle

NextStore == StoreRegister \/ StoreDeleteVolume \/ StoreDeleteSeries \/ StoreListLibrary

SpecStore == InitStore /\ [][NextStore]_vars

\* ------------------------------- specification: search tab and storage
\* The search tab against the storage API.  A request is evaluated by the
\* backend at one moment and its answer reaches the tab at a later one; the
\* tab has at most one search and at most one registration in flight.

\* the books the catalogue finds for the query, by identifier
CatalogIsbns == <<IsbnX, NoText, IsbnY, IsbnX>>

\* GET /api/catalog/search evaluated against the store
catalogSearch ==
  [k \in 1..Len(CatalogIsbns) |->
     [isbn |-> CatalogIsbns[k], owned |-> classifyOwned(CatalogIsbns[k])]]

OwnershipFrame == UNCHANGED <<libraryVars, route, deleteSeriesVars, clockVars, scanVars, seriesVars>>

SearchEvaluated ==
  /\ route = "search"
  /\ searchFetches # << >>
  /\ searchAnswer = NoAnswer
  /\ searchAnswer' = catalogSearch
  /\ UNCHANGED <<storeSeries, storeVolumes, storeClock, storeResponse, registerAnswer>>
  /\ UNCHANGED searchVars
  /\ OwnershipFrame

SearchAnswered ==
  /\ route = "search"
  /\ searchAnswer # NoAnswer
  /\ executeSearchSucceeds(1, searchAnswer)
  /\ searchAnswer' = NoAnswer
  /\ UNCHANGED <<storeSeries, storeVolumes, storeClock, storeResponse, registerAnswer>>
  /\ OwnershipFrame

RegisterEvaluated ==
  \E book \in BookRecords :
    /\ route = "search"
    /\ searchCalls # << >>
    /\ registerAnswer = 0
    /\ storeClock < MaxRegistrations
    /\ book.volume_number = 1
    /\ book.cover_url = Null
    /\ insertVolume(searchCalls[1].requestIsbn, book)
    /\ registerAnswer' = storeResponse'.status
    /\ UNCHANGED searchAnswer
    /\ UNCHANGED searchVars
    /\ OwnershipFrame

RegisterAnswered ==
  /\ route = "search"
  /\ registerAnswer # 0
  /\ registerCandidateOwned(1, registerAnswer, searchCalls[1].requestIsbn)
  /\ registerAnswer' = 0
  /\ UNCHANGED <<storeSeries, storeVolumes, storeClock, storeResponse, searchAnswer>>
  /\ OwnershipFrame

InitOwnership ==
  /\ route = "search"
  /\ ClockInit
  /\ SignalInit
  /\ DeleteSeriesInit
  /\ StoreInit
  /\ LibraryUnmounted
  /\ ScanInit
  /\ SearchInit
  /\ SeriesIdle
  /\ VolumesIdle

NextOwnership ==
  \/ SearchSubmit
  \/ SearchEvaluated
  \/ SearchAnswered
  \/ SearchRegisterClick
  \/ RegisterEvaluated
  \/ RegisterAnswered

SpecOwnership == InitOwnership /\ [][NextOwnership]_vars

\* ------------------------------------------- specification: decoded texts
\* The decoder delivers texts that grow by one fragment at a time.
DecodeFragment ==
  \E p \in Pieces :
    /\ scanPieces < MaxPieces
    /\ DecodeCallback(scanResult \o p)
    /\ scanPieces' = scanPieces + 1
    /\ UNCHANGED <<libraryVars, route, storeVars, deleteSeriesVars, clockVars, searchVars, seriesVars>>

InitIsbn ==
  /\ route = "scan"
  /\ ClockInit
  /\ SignalInit
  /\ DeleteSeriesInit
  /\ StoreInit
  /\ LibraryUnmounted
  /\ ScanInit
  /\ SearchInit
  /\ SeriesIdle
  /\ VolumesIdle

NextIsbn == ScanStartCamera \/ DecodeFragment

SpecIsbn == InitIsbn /\ [][NextIsbn]_vars

\* ---------------------------------------- specification: candidate payloads
\* The candidates endpoint answers with payloads that grow by one candidate.
MergeFetchSucceed ==
  \E candidate \in SeriesCandidates :
    /\ Len(candidatesPayload) < MaxCandidates
    /\ candidateFetches # << >>
    /\ fetchCandidatesSucceeds(Len(candidateFetches), Append(candidatesPayload, candidate))
    /\ UNCHANGED <<libraryVars, route, storeVars, deleteSeriesVars, clockVars, scanVars, searchVars, libraryRefreshSignal, seriesId, volumeVars>>

\* the section is given another seriesId: the fetch effect runs again
SeriesIdChanged ==
  /\ route = "series"
  /\ Len(candidateFetches) < MaxReloadKey
  /\ seriesId' \in SeriesIds \ {seriesId}
  /\ RerunFetchEffect
  /\ \E list \in VolumePayloads : newInitialVolumes(list)
  /\ UNCHANGED <<seriesCandidates, reloadKey, seriesIsSubmittingRegister,
                 registerResultToast, seriesCalls, candidatesPayload>>
  /\ UNCHANGED <<deletingByIsbn, deleteResult, deletingIsbnSetRef, deleteCalls>>
  /\ UNCHANGED <<libraryVars, route, storeVars, deleteSeriesVars, clockVars, scanVars, searchVars, libraryRefreshSignal>>

InitMerge ==
  /\ route = "series"
  /\ ClockInit
  /\ SignalInit
  /\ DeleteSeriesInit
  /\ StoreInit
  /\ LibraryUnmounted
  /\ ScanInit
  /\ SearchInit
  /\ SeriesInit
  /\ VolumesIdle

NextMerge == MergeFetchSucceed \/ SeriesIdChanged \/ SeriesFetchAborted

SpecMerge == InitMerge /\ [][NextMerge]_vars

\* ------------------------------------------- specification: raw payloads
\* The candidates endpoint answers with arrays whose elements may lack the
\* identifier.
RawCandidates ==
  { [isbn |-> NoText, volume_number |-> 1, cover_url |-> Null],
    [isbn |-> NoText, volume_number |-> NullVolume, cover_url |-> "https://cover"],
    [isbn |-> IsbnX, volume_number |-> 1, cover_url |-> Null],
    [isbn |-> IsbnX, volume_number |-> 2, cover_url |-> "https://cover"],
    [isbn |-> IsbnY, volume_number |-> 1, cover_url |-> Null] }

RawFetchSettle ==
  \E candidate \in RawCandidates :
    /\ Len(candidatesPayload) < MaxCandidates
    /\ candidateFetches # << >>
    /\ fetchCandidatesSettles(Len(candidateFetches), Append(candidatesPayload, candidate))
    /\ UNCHANGED <<libraryVars, route, storeVars, deleteSeriesVars, clockVars, scanVars, searchVars, libraryRefreshSignal, seriesId, volumeVars>>

NextRaw == RawFetchSettle \/ SeriesIdChanged \/ SeriesFetchAborted

SpecRaw == InitMerge /\ [][NextRaw]_vars

\* ------------------------------------------ specification: volume lists
\* The page passes volume lists that grow by one volume at a time.
VolumesGrow ==
  \E volume \in SeriesVolumes :
    /\ route = "volumes"
    /\ Len(initialVolumes) < MaxVolumes
    /\ newInitialVolumes(Append(initialVolumes, volume))
    /\ UNCHANGED <<deletingByIsbn, deleteResult, deletingIsbnSetRef, deleteCalls>>
    /\ UNCHANGED <<libraryVars, route, storeVars, deleteSeriesVars, clockVars, scanVars, searchVars, libraryRefreshSignal, seriesId>>
    /\ UNCHANGED <<seriesCandidates, seriesIsLoading, seriesErrorMessage, reloadKey,
                   selectedCandidate, seriesIsSubmittingRegister, registerResultToast,
                   seriesCalls, candidateFetches, candidatesPayload>>

InitVolumes ==
  /\ route = "volumes"
  /\ ClockInit
  /\ SignalInit
  /\ DeleteSeriesInit
  /\ StoreInit
  /\ LibraryUnmounted
  /\ ScanInit
  /\ SearchInit
  /\ SeriesIdle
  /\ VolumesIdle

NextVolumes == VolumesGrow

SpecVolumes == InitVolumes /\ [][NextVolumes]_vars

\* ------------------------------------------------ specification: the pages
Init ==
  /\ route \in Routes
  /\ ClockInit
  /\ SignalInit
  /\ DeleteSeriesInit
  /\ StoreInit
  /\ LibraryUnmounted
  /\ ScanInit
  /\ SearchInit
  /\ IF route = "series" THEN SeriesInit ELSE SeriesIdle
  /\ IF route \in {"series", "volumes"} THEN VolumesInit ELSE VolumesIdle

Next ==
  \/ Tick
  \/ ScanStartCamera
  \/ ScanStopCamera
  \/ ScanDecode
  \/ ScanSubmitClick
  \/ ScanFetchResolve
  \/ ScanFetchReject
  \/ ScanBodySettle
  \/ SearchSubmit
  \/ SearchRetry
  \/ SearchFetchSucceed
  \/ SearchFetchFail
  \/ SearchTyping
  \/ SearchRegisterClick
  \/ SearchRegisterOwned
  \/ SearchRegisterFail
  \/ SeriesFetchAborted
  \/ SeriesFetchSucceed
  \/ SeriesFetchFail
  \/ SeriesRetry
  \/ SeriesIdChanged
  \/ SeriesSelectCandidate
  \/ SeriesCloseModal
  \/ SeriesRegisterClick
  \/ SeriesRegisterDone
  \/ SeriesRegisterFail
  \/ SeriesToastGone
  \/ VolumesRefreshed
  \/ VolumeRegisteredSignal
  \/ VolumeDeleteClick
  \/ VolumeDeleteDone
  \/ SeriesDeleteClick
  \/ SeriesDeleteDone
  \/ SeriesDeleteFail
  \/ VolumeDeleteFail

Spec == Init /\ [][Next]_vars

\* the pages when every request that was sent is answered or fails: the
\* promise of each fetch and of each response.json() settles
ScanRequestSettles == ScanFetchResolve \/ ScanFetchReject \/ ScanBodySettle
SearchRequestSettles == SearchRegisterOwned \/ SearchRegisterFail
SeriesDeleteSettles == SeriesDeleteDone \/ SeriesDeleteFail
VolumeDeleteSettles(isbn) ==
  /\ VolumeDeleteDone \/ VolumeDeleteFail
  /\ isbn \in deletingIsbnSetRef
  /\ isbn \notin deletingIsbnSetRef'

SpecSettling ==
  /\ Spec
  /\ WF_vars(ScanRequestSettles)
  /\ WF_vars(SearchRequestSettles)
  /\ WF_vars(SeriesDeleteSettles)
  /\ \A isbn \in VolumeIsbns : WF_vars(VolumeDeleteSettles(isbn))

\* ------------------------------------------------ the library tab
MaxFetches == 3

\* what the user types into the search box of the library
Keywords == {NoText, <<" ">>, <<"k">>}

\* the series GET /api/library may answer for a keyword: series 2 does not
\* match the keyword k
LibraryAnswers(q) ==
  IF q = NoText THEN {<< >>, <<"1">>, <<"1", "2">>} ELSE {<< >>, <<"1">>}

\* normalizedSearchKeyword
normalizedSearchKeyword == Trim(debouncedSearchKeyword)

\* publishLibraryRefreshSignal: the key is written, whatever it held
publishLibraryRefreshSignal == libraryRefreshSignal' = TRUE

\* consumeLibraryRefreshSignal without removeItem
consumeLibraryRefreshSignal_keepsKey(returned) ==
  /\ returned = libraryRefreshSignal
  /\ UNCHANGED libraryRefreshSignal

\* consumeLibraryRefreshSignal: the value it returns; the key is removed
consumeLibraryRefreshSignal(returned) ==
  /\ returned = libraryRefreshSignal
  /\ libraryRefreshSignal' = FALSE

\* the effect on [normalizedSearchKeyword, reloadKey]: clean-up of the
\* previous run, then fetchLibrary up to its first await
fetchLibraryStarts(fetches, q) ==
  /\ libraryFetches' =
       Append([i \in 1..Len(fetches) |-> [fetches[i] EXCEPT !.aborted = TRUE]],
              [aborted |-> FALSE, q |-> q])
  /\ libraryIsLoading' = TRUE
  /\ libraryErrorMessage' = Null

\* refreshLibraryIfNeeded, with the render its reloadLibrary() causes
refreshLibraryIfNeeded(fetches) ==
  \E returned \in BOOLEAN :
    /\ consumeLibraryRefreshSignal(returned)
    /\ IF returned
         THEN /\ libraryReloadKey' = libraryReloadKey + 1
              /\ fetchLibraryStarts(fetches, normalizedSearchKeyword)
         ELSE UNCHANGED <<libraryReloadKey, libraryFetches, libraryIsLoading,
                          libraryErrorMessage>>

LibraryFrame ==
  UNCHANGED <<storeVars, deleteSeriesVars, clockVars, scanVars, searchVars,
              candidateVars, volumeVars>>

\* the page is opened: initial state, the first fetchLibrary, then the
\* refresh effect's own call of refreshLibraryIfNeeded
LibraryMount ==
  /\ route = "away"
  /\ ~libraryMounted
  /\ Len(libraryFetches) + 2 <= MaxFetches
  /\ route' = "library"
  /\ libraryMounted' = TRUE
  /\ \E returned \in BOOLEAN :
       /\ consumeLibraryRefreshSignal(returned)
       /\ libraryReloadKey' = IF returned THEN 1 ELSE 0
       /\ libraryFetches' =
            IF returned
              THEN libraryFetches \o <<[aborted |-> TRUE, q |-> NoText],
                                       [aborted |-> FALSE, q |-> NoText]>>
              ELSE Append(libraryFetches, [aborted |-> FALSE, q |-> NoText])
  /\ UNCHANGED <<seriesList, libraryIsLoading, libraryErrorMessage, searchKeyword,
                 debouncedSearchKeyword>>
  /\ LibraryFrame

\* navigation to another page of the application: the component unmounts,
\* the clean-up of the fetch effect aborts the request
LibraryUnmount ==
  /\ route = "library"
  /\ libraryMounted
  /\ route' = "away"
  /\ libraryMounted' = FALSE
  /\ libraryFetches' =
       [i \in 1..Len(libraryFetches) |-> [libraryFetches[i] EXCEPT !.aborted = TRUE]]
  /\ seriesList' = << >>
  /\ libraryIsLoading' = TRUE
  /\ libraryErrorMessage' = Null
  /\ libraryReloadKey' = 0
  /\ searchKeyword' = NoText
  /\ debouncedSearchKeyword' = NoText
  /\ UNCHANGED libraryRefreshSignal
  /\ LibraryFrame

\* the window loses the page but keeps it alive (another window in front,
\* or the page goes to the back-forward cache)
LibraryHide ==
  /\ route = "library"
  /\ libraryMounted
  /\ route' = "away"
  /\ UNCHANGED <<libraryVars, libraryRefreshSignal>>
  /\ LibraryFrame

\* "focus" or "pageshow": the listener runs refreshLibraryIfNeeded
LibraryShow ==
  /\ route = "away"
  /\ libraryMounted
  /\ libraryRefreshSignal => /\ Len(libraryFetches) < MaxFetches
                             /\ libraryReloadKey < MaxReloadKey
  /\ route' = "library"
  /\ refreshLibraryIfNeeded(libraryFetches)
  /\ UNCHANGED <<seriesList, searchKeyword, debouncedSearchKeyword, libraryMounted>>
  /\ LibraryFrame

\* a registration or a deletion on another page publishes the signal
LibraryPublished ==
  /\ route = "away"
  /\ publishLibraryRefreshSignal
  /\ UNCHANGED <<route, libraryVars>>
  /\ LibraryFrame

\* onChange of the search box
LibraryTyping ==
  \E keyword \in Keywords \ {searchKeyword} :
    /\ route = "library"
    /\ searchKeyword' = keyword
    /\ UNCHANGED <<seriesList, libraryIsLoading, libraryErrorMessage, libraryReloadKey,
                   debouncedSearchKeyword, libraryMounted, libraryFetches>>
    /\ UNCHANGED <<route, libraryRefreshSignal>>
    /\ LibraryFrame

\* the debounce timer fires SEARCH_DEBOUNCE_MS after the last keystroke
LibraryDebounced ==
  /\ libraryMounted
  /\ debouncedSearchKeyword # searchKeyword
  /\ debouncedSearchKeyword' = searchKeyword
  /\ IF Trim(searchKeyword) # normalizedSearchKeyword
       THEN /\ Len(libraryFetches) < MaxFetches
            /\ fetchLibraryStarts(libraryFetches, Trim(searchKeyword))
       ELSE UNCHANGED <<libraryFetches, libraryIsLoading, libraryErrorMessage>>
  /\ UNCHANGED <<seriesList, libraryReloadKey, searchKeyword, libraryMounted>>
  /\ UNCHANGED <<route, libraryRefreshSignal>>
  /\ LibraryFrame

\* the retry button of the error panel
LibraryRetry ==
  /\ route = "library"
  /\ ~libraryIsLoading
  /\ libraryErrorMessage # Null
  /\ Len(libraryFetches) < MaxFetches
  /\ libraryReloadKey < MaxReloadKey
  /\ libraryReloadKey' = libraryReloadKey + 1
  /\ fetchLibraryStarts(libraryFetches, normalizedSearchKeyword)
  /\ UNCHANGED <<seriesList, searchKeyword, debouncedSearchKeyword, libraryMounted>>
  /\ UNCHANGED <<route, libraryRefreshSignal>>
  /\ LibraryFrame

\* fetchLibrary without the tests of abortController.signal.aborted
fetchLibrarySettles_ignoresAbort(i, payload) ==
  /\ libraryFetches' = RemoveAt(libraryFetches, i)
  /\ seriesList' = IF payload = <<Null>> THEN << >> ELSE payload
  /\ libraryErrorMessage' =
       IF payload = <<Null>> THEN "DEFAULT_ERROR_MESSAGE" ELSE libraryErrorMessage
  /\ libraryIsLoading' = FALSE
  /\ UNCHANGED <<libraryReloadKey, searchKeyword, debouncedSearchKeyword, libraryMounted>>

\* fetchLibrary once its request has settled: a list of series (payload), or
\* a failure or a malformed payload (Null)
fetchLibrarySettles(i, payload) ==
  /\ libraryFetches' = RemoveAt(libraryFetches, i)
  /\ IF libraryFetches[i].aborted
       THEN UNCHANGED <<seriesList, libraryErrorMessage, libraryIsLoading>>
       ELSE /\ seriesList' = IF payload = <<Null>> THEN << >> ELSE payload
            /\ libraryErrorMessage' =
                 IF payload = <<Null>> THEN "DEFAULT_ERROR_MESSAGE" ELSE libraryErrorMessage
            /\ libraryIsLoading' = FALSE
  /\ UNCHANGED <<libraryReloadKey, searchKeyword, debouncedSearchKeyword, libraryMounted>>

LibraryFetchSucceed ==
  \E i \in 1..Len(libraryFetches) :
    \E payload \in LibraryAnswers(libraryFetches[i].q) :
      /\ ~libraryFetches[i].aborted
      /\ fetchLibrarySettles(i, payload)
      /\ UNCHANGED <<route, libraryRefreshSignal>>
      /\ LibraryFrame

LibraryFetchFail ==
  \E i \in 1..Len(libraryFetches) :
    /\ ~libraryFetches[i].aborted
    /\ fetchLibrarySettles(i, <<Null>>)
    /\ UNCHANGED <<route, libraryRefreshSignal>>
    /\ LibraryFrame

\* the request of a run that was cleaned up settles, with a list or not
LibraryFetchAborted ==
  \E i \in 1..Len(libraryFetches) :
    \E payload \in LibraryAnswers(libraryFetches[i].q) \cup {<<Null>>} :
      /\ libraryFetches[i].aborted
      /\ fetchLibrarySettles(i, payload)
      /\ UNCHANGED <<route, libraryRefreshSignal>>
      /\ LibraryFrame

\* the library tab, or the series page with its candidate section
InitLibrary ==
  /\ route \in {"away", "series"}
  /\ ClockInit
  /\ SignalInit
  /\ DeleteSeriesInit
  /\ StoreInit
  /\ LibraryUnmounted
  /\ ScanInit
  /\ SearchInit
  /\ IF route = "series" THEN SeriesInit ELSE SeriesIdle
  /\ VolumesIdle

NextLibrary ==
  \/ LibraryMount
  \/ LibraryUnmount
  \/ LibraryHide
  \/ LibraryShow
  \/ LibraryPublished
  \/ LibraryTyping
  \/ LibraryDebounced
  \/ LibraryRetry
  \/ LibraryFetchSucceed
  \/ LibraryFetchFail
  \/ LibraryFetchAborted
  \/ SeriesFetchAborted
  \/ SeriesFetchSucceed
  \/ SeriesFetchFail
  \/ SeriesRetry
  \/ SeriesIdChanged

SpecLibrary == InitLibrary /\ [][NextLibrary]_vars

\* ------------------------------------------------ claims on decoded texts
IsFullWidthDigit(c) ==
  c \in {"fw0", "fw1", "fw2", "fw3", "fw4", "fw5", "fw6", "fw7", "fw8", "fw9"}

\* the clean-up as C6 words it: only full-width digits are converted
FullWidthDigitsToHalfWidth(s) ==
  [i \in 1..Len(s) |-> IF IsFullWidthDigit(s[i]) THEN NFKCChar(s[i]) ELSE s[i]]

ClaimedCleanUp(s) ==
  SelectSeq(FullWidthDigitsToHalfWidth(Trim(s)), LAMBDA c : c # "-" /\ ~IsWhiteSpace(c))

\* the clean-up with the whole compatibility normalisation
CompatCleanUp(s) == SelectSeq(NFKC(s), LAMBDA c : c # "-" /\ ~IsWhiteSpace(c))

ThirteenDigitsOrNull(s) ==
  IF Len(s) = 13 /\ \A i \in 1..Len(s) : s[i] \in AsciiDigits THEN s ELSE NoText

Contains(s, sub) ==
  \E i \in 1..(Len(s) - Len(sub) + 1) : SubSeq(s, i, i + Len(sub) - 1) = sub

Example1 ==
  <<" ", "9", "7", "8", "-", "4", "-", "0", "8", "-", "8", "8", "3", "6", "4", "4", "-", "0", " ">>
Example2 == <<"9", "7", "8", "-", "a", "b", "c">>

C7_Idempotent ==
  /\ toNormalizedIsbn(scanResult) # NoText =>
       toNormalizedIsbn(toNormalizedIsbn(scanResult)) = toNormalizedIsbn(scanResult)
  /\ isNormalizedIsbn(scanResult) => toNormalizedIsbn(scanResult) = scanResult

\* a non-canonical text (longer than 13 characters) that normalises
C7_Witness ==
  /\ Len(scanResult) > 13
  /\ toNormalizedIsbn(scanResult) # NoText
  /\ toNormalizedIsbn(scanResult) # scanResult

IsToken(t) ==
  /\ Len(t) >= 13
  /\ Len(t) <= 32
  /\ \A i \in 1..Len(t) : t[i] \in AsciiDigits \/ t[i] = "-" \/ IsWhiteSpace(t[i])
  /\ t[1] \in AsciiDigits
  /\ t[Len(t)] \in AsciiDigits

\* C8: the extractor returns the direct normalisation when there is one;
\* otherwise every token it tries is 13 to 32 characters of digits, hyphens
\* and white space with a digit at both ends, taken from the normalised text,
\* and the result is the normalisation of the first token that normalises,
\* or the failure value when none does.
C8_TwoPass ==
  scanResult # NoText =>
    LET direct == toNormalizedIsbn(scanResult)
        text == normalizeScannedText(scanResult)
        tokens == possibleIsbnTokens(text)
        good == {i \in 1..Len(tokens) : toNormalizedIsbn(tokens[i]) # NoText}
    IN  IF direct # NoText THEN confirmedIsbn = direct
        ELSE /\ \A i \in 1..Len(tokens) : IsToken(tokens[i]) /\ Contains(text, tokens[i])
             /\ IF good = {} THEN confirmedIsbn = NoText
                ELSE \E i \in good :
                       /\ \A k \in good : i <= k
                       /\ confirmedIsbn = toNormalizedIsbn(tokens[i])

\* the whole text does not normalise, its first token does not either, and a
\* later token gives the identifier
C8_Witness ==
  LET tokens == possibleIsbnTokens(normalizeScannedText(scanResult))
  IN  /\ toNormalizedIsbn(scanResult) = NoText
      /\ Len(tokens) >= 2
      /\ toNormalizedIsbn(tokens[1]) = NoText
      /\ confirmedIsbn = Isbn9784088836440

\* C9: a 20-character scan text that contains 9784088836440 yields
\* 9784088836440.
C9_TwentyCharPayload ==
  (Len(scanResult) = 20 /\ Contains(scanResult, Isbn9784088836440)) =>
    confirmedIsbn = Isbn9784088836440

\* ------------------------------------------------- claims on the merge
IsbnsOf(candidates) == {candidates[i].isbn : i \in 1..Len(candidates)}

\* C10: the merged list holds exactly one candidate for each identifier of
\* the payload, and that candidate is a candidate of the payload with that
\* identifier.
C10_Deduplication ==
  /\ IsbnsOf(seriesCandidates) = IsbnsOf(candidatesPayload)
  /\ \A isbn \in IsbnsOf(candidatesPayload) :
       Cardinality({i \in 1..Len(seriesCandidates) : seriesCandidates[i].isbn = isbn}) = 1
  /\ \A i \in 1..Len(seriesCandidates) :
       \E j \in 1..Len(candidatesPayload) : candidatesPayload[j] = seriesCandidates[i]

\* a payload of three candidates of which two share an identifier
C10_Witness ==
  /\ Len(candidatesPayload) = 3
  /\ Len(seriesCandidates) = 2
  /\ candidatesPayload[1].isbn = candidatesPayload[3].isbn
  /\ candidatesPayload[1] # candidatesPayload[3]

\* --------------------------------------------- claims on the registration
PostIssuedFor(isbn) ==
  /\ scanCalls' = <<[requestIsbn |-> isbn, stage |-> "fetch", status |-> 0]>>
  /\ isSubmittingRegisterRef'
  /\ registerRequestStatus' = "idle"

SearchHandlerStep ==
  \E index \in 1..Len(searchCandidates) :
    registerCandidate(searchCandidates[index],
                      getCandidateKey(searchCandidates[index], index))

\* C1: on each surface at most one registration call is running, and a
\* registration request made while one is running changes nothing.
C1_SingleFlight ==
  /\ [](Len(scanCalls) <= 1 /\ Len(searchCalls) <= 1 /\ Len(seriesCalls) <= 1)
  /\ [][(scanCalls # << >> /\ submitRegisterRequest) => UNCHANGED scanVars]_vars
  /\ [][(searchCalls # << >> /\ SearchHandlerStep) => UNCHANGED searchVars]_vars
  /\ [][(seriesCalls # << >> /\ seriesRegisterCandidate) => UNCHANGED seriesVars]_vars

\* the search tab shows an enabled register button while a registration is
\* running: only the ref of the handler drops the request
C1_Witness ==
  /\ route = "search"
  /\ searchCalls # << >>
  /\ isRegisteringRef
  /\ registeringCandidateKey = NoKey
  /\ searchResultStatus = "success"
  /\ \E index \in 1..Len(searchCandidates) :
       searchCandidates[index].owned = "false" /\ searchCandidates[index].isbn # NoText

\* C2 (as stated): when the submission that finished last was of the
\* confirmed identifier and finished less than 10 seconds ago, whatever its
\* outcome, a submission is rejected with recentlyProcessed and sends nothing.
C2_CooldownAfterAnyOutcome ==
  [][(/\ ScanSubmitClick
      /\ scanCalls = << >>
      /\ confirmedIsbn # NoText
      /\ lastFinishedIsbn = confirmedIsbn
      /\ now - finishedAt[confirmedIsbn] < RECENT_PROCESSED_ISBN_IGNORE_MILLISECONDS)
     => (registerRequestStatus' = "recentlyProcessed" /\ scanCalls' = << >>)]_vars

\* C3: with nothing in flight, a submission of an identifier whose previous
\* submission finished more than 10 seconds ago, and the first submission of
\* the page, take the lock and send the request.
C3_CooldownExpiry ==
  [][(/\ ScanSubmitClick
      /\ scanCalls = << >>
      /\ isNormalizedIsbn(confirmedIsbn)
      /\ \/ lastFinishedIsbn = NoText
         \/ /\ finishedAt[confirmedIsbn] # Never
            /\ now - finishedAt[confirmedIsbn] > RECENT_PROCESSED_ISBN_IGNORE_MILLISECONDS)
     => PostIssuedFor(confirmedIsbn)]_vars

\* a request for X is in flight although X was processed before: its
\* previous submission finished more than 10 seconds ago
C3_Witness ==
  /\ scanCalls = <<[requestIsbn |-> IsbnX, stage |-> "fetch", status |-> 0]>>
  /\ latestProcessedIsbnRef = IsbnX
  /\ finishedAt[IsbnX] # Never
  /\ now - finishedAt[IsbnX] > RECENT_PROCESSED_ISBN_IGNORE_MILLISECONDS
  /\ registerRequestStatus = "idle"

\* C4: with nothing in flight, a submission of Y is sent when the submission
\* that finished last was of another identifier, however recently, and Y
\* itself has no submission that finished within the last 10 seconds.
C4_OtherIdentifier ==
  [][(/\ ScanSubmitClick
      /\ scanCalls = << >>
      /\ isNormalizedIsbn(confirmedIsbn)
      /\ lastFinishedIsbn # NoText
      /\ lastFinishedIsbn # confirmedIsbn
      /\ \/ finishedAt[confirmedIsbn] = Never
         \/ now - finishedAt[confirmedIsbn] >= RECENT_PROCESSED_ISBN_IGNORE_MILLISECONDS)
     => PostIssuedFor(confirmedIsbn)]_vars

\* a request for Y is in flight while X was processed in this millisecond
C4_Witness ==
  /\ scanCalls = <<[requestIsbn |-> IsbnY, stage |-> "fetch", status |-> 0]>>
  /\ lastFinishedIsbn = IsbnX
  /\ latestProcessedIsbnRef = IsbnX
  /\ now = latestProcessedAtMillisecondsRef
  /\ now = finishedAt[IsbnX]

\* C5: the confirmed identifier is null or 13 ASCII digits, every request
\* carries 13 ASCII digits, and a submission without a confirmed identifier
\* sets invalidIsbn and sends nothing.
C5_OnlyCanonicalReachesStorage ==
  /\ [](confirmedIsbn = NoText \/ isNormalizedIsbn(confirmedIsbn))
  /\ [](\A i \in 1..Len(scanCalls) : isNormalizedIsbn(scanCalls[i].requestIsbn))
  /\ [][(ScanSubmitClick /\ confirmedIsbn = NoText)
        => (registerRequestStatus' = "invalidIsbn" /\ scanCalls' = scanCalls)]_vars

\* a text without identifier was decoded and submitted
C5_Witness ==
  /\ scanResult = TextGarbage
  /\ confirmedIsbn = NoText
  /\ isbnErrorMessage = "ISBN_EXTRACTION_ERROR_MESSAGE"
  /\ registerRequestStatus = "invalidIsbn"
  /\ scanCalls = << >>

\* ------------------------------------------- claims on the merge, continued
HasVolumeNumber(candidate) == candidate.volume_number # NullVolume
HasCover(candidate) == candidate.cover_url # Null

\* the precedence as C11 words it
ClaimedPreferred(existingCandidate, incomingCandidate) ==
  IF HasVolumeNumber(existingCandidate) # HasVolumeNumber(incomingCandidate)
    THEN IF HasVolumeNumber(existingCandidate) THEN existingCandidate ELSE incomingCandidate
  ELSE IF /\ HasVolumeNumber(existingCandidate)
          /\ existingCandidate.volume_number # incomingCandidate.volume_number
    THEN IF existingCandidate.volume_number < incomingCandidate.volume_number
           THEN existingCandidate ELSE incomingCandidate
  ELSE IF HasCover(existingCandidate) # HasCover(incomingCandidate)
    THEN IF HasCover(existingCandidate) THEN existingCandidate ELSE incomingCandidate
  ELSE existingCandidate

TwoOfOneIsbn ==
  /\ Len(candidatesPayload) = 2
  /\ candidatesPayload[1].isbn = candidatesPayload[2].isbn

\* C11: of two candidates with one identifier the survivor is the one with
\* a volume number, else the one with the smaller volume number, else the
\* one with a cover, else the first.
C11_StrictPrecedence ==
  TwoOfOneIsbn =>
    seriesCandidates = <<ClaimedPreferred(candidatesPayload[1], candidatesPayload[2])>>

\* C12: two candidates with one identifier that differ in volume number or
\* in having a cover give the same survivor in either order.
C12_OrderIndependent ==
  (/\ TwoOfOneIsbn
   /\ \/ candidatesPayload[1].volume_number # candidatesPayload[2].volume_number
      \/ HasCover(candidatesPayload[1]) # HasCover(candidatesPayload[2]))
    => mergeCandidatesByIsbn(<<candidatesPayload[2], candidatesPayload[1]>>) = seriesCandidates

FirstOccurrenceIndexes(candidates) ==
  {j \in 1..Len(candidates) : \A k \in 1..(j - 1) : candidates[k].isbn # candidates[j].isbn}

FirstOccurrences(candidates) ==
  LET indexes == FirstOccurrenceIndexes(candidates)
  IN  [n \in 1..Cardinality(indexes) |->
         candidates[CHOOSE j \in indexes : Cardinality({k \in indexes : k <= j}) = n].isbn]

\* C13: the identifiers of the merged list are the identifiers of the
\* payload in the order of their first occurrence.
C13_FirstSeenOrder ==
  [i \in 1..Len(seriesCandidates) |-> seriesCandidates[i].isbn]
    = FirstOccurrences(candidatesPayload)

\* the third candidate replaces the first as the winner and stays in front
\* of the second
C13_Witness ==
  /\ Len(candidatesPayload) = 3
  /\ candidatesPayload[1].isbn = candidatesPayload[3].isbn
  /\ candidatesPayload[1].isbn # candidatesPayload[2].isbn
  /\ Len(seriesCandidates) = 2
  /\ seriesCandidates[1] = candidatesPayload[3]
  /\ seriesCandidates[1] # candidatesPayload[1]

\* code points of the characters of identifiers and timestamps
CodePoint(c) ==
  CASE c = "-" -> 45 [] c = "0" -> 48 [] c = "1" -> 49 [] c = "2" -> 50 [] c = "3" -> 51
    [] c = "4" -> 52 [] c = "5" -> 53 [] c = "6" -> 54 [] c = "7" -> 55 [] c = "8" -> 56
    [] c = "9" -> 57 [] c = ":" -> 58 [] c = "T" -> 84 [] c = "Z" -> 90

\* s comes before t in lexicographic order
TextLess(s, t) ==
  \E k \in 1..(Len(t)) :
    /\ \A m \in 1..(k - 1) : m <= Len(s) /\ s[m] = t[m]
    /\ \/ k = Len(s) + 1
       \/ k <= Len(s) /\ CodePoint(s[k]) < CodePoint(t[k])

\* a may stand before b in a candidate list: volume number ascending with
\* nulls last, then identifier ascending
CandidateOrdered(a, b) ==
  IF HasVolumeNumber(a) # HasVolumeNumber(b) THEN HasVolumeNumber(a)
  ELSE IF a.volume_number # b.volume_number THEN a.volume_number < b.volume_number
  ELSE a.isbn = b.isbn \/ TextLess(a.isbn, b.isbn)

IsCandidateOrder(candidates) ==
  \A i \in 1..(Len(candidates) - 1) : CandidateOrdered(candidates[i], candidates[i + 1])

\* C14: a payload in candidate order gives a merged list in candidate order.
C14_MergeKeepsOrder ==
  IsCandidateOrder(candidatesPayload) => IsCandidateOrder(seriesCandidates)

\* ------------------------------------------- claims on the volume list
\* a may stand before b in a volume list: volume number ascending with
\* nulls last, then registered_at ascending, then identifier ascending
VolumeOrdered(a, b) ==
  IF HasVolumeNumber(a) # HasVolumeNumber(b) THEN HasVolumeNumber(a)
  ELSE IF a.volume_number # b.volume_number THEN a.volume_number < b.volume_number
  ELSE IF a.registered_at # b.registered_at THEN TextLess(a.registered_at, b.registered_at)
  ELSE a.isbn = b.isbn \/ TextLess(a.isbn, b.isbn)

IsVolumeOrder(list) ==
  \A i \in 1..(Len(list) - 1) : VolumeOrdered(list[i], list[i + 1])

\* C15: the displayed volume list is always in volume order.
C15_VolumesSorted == IsVolumeOrder(volumes)

\* a list that was loaded unsorted, received a registered volume in front
\* and lost a volume by a delete
C15_Witness ==
  /\ route = "volumes"
  /\ initialVolumes = <<VolumeZ, VolumeY2>>
  /\ volumes = <<VolumeX1, VolumeZ>>
  /\ deleteResult # NoDeleteResult
  /\ deleteResult.tone = "success"

Sign(n) == IF n < 0 THEN -1 ELSE IF n > 0 THEN 1 ELSE 0

Injections(n) == {f \in [1..n -> 1..n] : \A i, j \in 1..n : f[i] = f[j] => i = j}

DistinctIsbns(list) ==
  \A i, j \in 1..Len(list) : list[i].isbn = list[j].isbn => i = j

\* C16: the comparator gives 0 only for one identifier, is antisymmetric and
\* transitive, and every permutation of a list of volumes with distinct
\* identifiers sorts to the same list.
C16_TotalOrder ==
  LET n == Len(initialVolumes)
      v == initialVolumes
  IN  /\ \A i, j \in 1..n :
           /\ compareSeriesVolumes(v[i], v[j]) = 0 => v[i].isbn = v[j].isbn
           /\ Sign(compareSeriesVolumes(v[i], v[j])) = 0 - Sign(compareSeriesVolumes(v[j], v[i]))
      /\ \A i, j, k \in 1..n :
           (compareSeriesVolumes(v[i], v[j]) <= 0 /\ compareSeriesVolumes(v[j], v[k]) <= 0)
             => compareSeriesVolumes(v[i], v[k]) <= 0
      /\ DistinctIsbns(v) =>
           \A f \in Injections(n) : sortSeriesVolumes([i \in 1..n |-> v[f[i]]]) = volumes

\* three volumes of one volume number, two of them registered at the same
\* time, given out of order
C16_Witness ==
  /\ route = "volumes"
  /\ Len(initialVolumes) = 3
  /\ DistinctIsbns(initialVolumes)
  /\ \A i \in 1..3 : initialVolumes[i].volume_number = 1
  /\ initialVolumes[1].registered_at = initialVolumes[2].registered_at
  /\ initialVolumes[3].registered_at # initialVolumes[1].registered_at
  /\ volumes = <<initialVolumes[2], initialVolumes[1], initialVolumes[3]>>

IsbnCount(list, isbn) == Cardinality({i \in 1..Len(list) : list[i].isbn = isbn})

\* C17: when a registration of candidate X is answered 201 with a
\* well-formed volume for the series the section showed at the press and
\* still shows, X leaves the candidate list and the volume list holds the
\* new volume once, in volume order.
C17_RegisteredVolumeMerged ==
  [][\A i \in 1..Len(seriesCalls), response \in RegisterResponses :
       (/\ route = "series"
        /\ response.kind = "created"
        /\ response.volume # NoVolume
        /\ response.seriesId = seriesId
        /\ seriesCalls[i].seriesId = seriesId
        /\ registerCandidateSettles(i, response))
       => (/\ \A k \in 1..Len(seriesCandidates') :
                seriesCandidates'[k].isbn # seriesCalls[i].targetCandidate.isbn
           /\ IsbnCount(volumes', response.volume.isbn) = 1
           /\ \E k \in 1..Len(volumes') : volumes'[k] = response.volume
           /\ IsVolumeOrder(volumes'))]_vars

\* candidate Y was registered: its new volume replaced the loaded volume of
\* that identifier and stands in front
C17_Witness ==
  /\ route = "series"
  /\ registerResultToast = "success"
  /\ initialVolumes = <<VolumeZ, VolumeY2>>
  /\ volumes = <<VolumeY1, VolumeZ>>
  /\ \E k \in 1..Len(candidatesPayload) : candidatesPayload[k].isbn = IsbnY
  /\ \A k \in 1..Len(seriesCandidates) : seriesCandidates[k].isbn # IsbnY

\* ------------------------------------ claims on the registration outcomes
\* the outcome as C18 words it
ClaimedOutcome(status, code) ==
  CASE status = 409 /\ code = "VOLUME_ALREADY_EXISTS" -> "alreadyExists"
    [] status = 400 /\ code = "INVALID_ISBN" -> "invalidIsbn"
    [] OTHER -> "failure"

\* C18: a non-OK response ends the submission in alreadyExists for 409
\* VOLUME_ALREADY_EXISTS, in invalidIsbn for 400 INVALID_ISBN and in failure
\* otherwise, and the lock is released.
C18_ConflictIsInformational ==
  [][\A i \in 1..Len(scanCalls), code \in ErrorCodes :
       (/\ route = "scan"
        /\ scanCalls[i].stage = "json"
        /\ scanCalls[i].status # 201
        /\ submitRegisterRequestSettles(i, code))
       => (/\ registerRequestStatus' = ClaimedOutcome(scanCalls[i].status, code)
           /\ ~isSubmittingRegisterRef'
           /\ ~isSubmittingRegister'
           /\ scanCalls' = << >>)]_vars

\* a submission of IsbnX ended in alreadyExists and the lock is free
C18_Witness ==
  /\ route = "scan"
  /\ lastFinishedIsbn = IsbnX
  /\ latestProcessedIsbnRef = IsbnX
  /\ registerRequestStatus = "alreadyExists"
  /\ registerRequestMessage = "REGISTER_ALREADY_EXISTS_MESSAGE"
  /\ ~isSubmittingRegisterRef
  /\ ~isSubmittingRegister
  /\ scanCalls = << >>

\* ------------------------------------------- claims on the search tab list
\* C19: when a registration of X ends in success or in conflict, exactly the
\* candidates whose identifier is X or the identifier the response reports
\* become owned; the others, the length and the order stay as they were, a
\* candidate without identifier is not marked, and no search is started.
C19_OwnershipReclassified ==
  [][\A i \in 1..Len(searchCalls), status \in {201, 409} :
       \A matchedIsbn \in ReportedIsbns(status, searchCalls[i].requestIsbn) :
         (route = "search" /\ registerCandidateOwned(i, status, matchedIsbn))
         => (/\ Len(searchCandidates') = Len(searchCandidates)
             /\ \A k \in 1..Len(searchCandidates) :
                  LET before == searchCandidates[k]
                  IN  IF /\ before.isbn # NoText
                         /\ before.isbn \in {searchCalls[i].requestIsbn, matchedIsbn}
                        THEN searchCandidates'[k] = [before EXCEPT !.owned = "true"]
                        ELSE searchCandidates'[k] = before
             /\ searchFetches' = searchFetches
             /\ searchIsLoading' = searchIsLoading)]_vars

\* a registration pressed at index 1 was answered after a new search put the
\* same identifier at index 2: that candidate is owned now
C19_Witness ==
  /\ route = "search"
  /\ Len(searchCandidates) = 2
  /\ searchCandidates[1] = [isbn |-> IsbnY, owned |-> "false"]
  /\ searchCandidates[2] = [isbn |-> IsbnX, owned |-> "true"]
  /\ \E f \in registerFeedbackByCandidateKey :
       f.key = [isbn |-> IsbnX, index |-> 1] /\ f.tone \in {"success", "info"}
  /\ searchCalls = << >>

\* C20: a registration request is issued only for a candidate of the list
\* that is not owned (owned = false) and has an identifier.
C20_OnlyRegistrableIsPosted ==
  [][(route = "search" /\ Len(searchCalls') > Len(searchCalls))
       => \E index \in 1..Len(searchCandidates) :
            /\ searchCandidates[index].owned = "false"
            /\ searchCandidates[index].isbn # NoText
            /\ searchCalls' = Append(searchCalls,
                 [requestIsbn |-> searchCandidates[index].isbn,
                  candidateKey |-> getCandidateKey(searchCandidates[index], index)])]_vars

\* a request for IsbnX is in flight while the list also holds a candidate
\* without identifier classified unknown and an owned one
C20_Witness ==
  /\ route = "search"
  /\ Len(searchCalls) = 1
  /\ searchCalls[1].requestIsbn = IsbnX
  /\ \E k \in 1..Len(searchCandidates) :
       searchCandidates[k] = [isbn |-> NoText, owned |-> "unknown"]
  /\ \E k \in 1..Len(searchCandidates) :
       searchCandidates[k] = [isbn |-> IsbnY, owned |-> "true"]
  /\ searchCandidates[1] = [isbn |-> IsbnX, owned |-> "false"]

\* ------------------------------------------ claims on the scope of the lock
\* a press of the scan page's button that sends the POST for isbn
ScanPostFor(isbn) ==
  /\ ScanSubmitClick
  /\ scanCalls' = Append(scanCalls, [requestIsbn |-> isbn, stage |-> "fetch", status |-> 0])

\* a press on the search tab that sends the POST for isbn
SearchPostFor(isbn) ==
  /\ SearchRegisterClick
  /\ Len(searchCalls') = Len(searchCalls) + 1
  /\ searchCalls'[Len(searchCalls')].requestIsbn = isbn

\* C23: while a registration of X is in flight, a registration of another
\* identifier Y on the same surface is not blocked: its POST can be sent.
C23_LockPerIdentifier ==
  /\ (/\ route = "scan"
      /\ Len(scanCalls) = 1
      /\ isNormalizedIsbn(confirmedIsbn)
      /\ confirmedIsbn # scanCalls[1].requestIsbn
      /\ latestProcessedIsbnRef # confirmedIsbn)
     => ENABLED ScanPostFor(confirmedIsbn)
  /\ \A index \in 1..Len(searchCandidates) :
       (/\ route = "search"
        /\ Len(searchCalls) = 1
        /\ searchResultStatus = "success"
        /\ searchCandidates[index].owned = "false"
        /\ searchCandidates[index].isbn # NoText
        /\ searchCandidates[index].isbn # searchCalls[1].requestIsbn)
       => ENABLED SearchPostFor(searchCandidates[index].isbn)

\* C30: a submission of X less than 10 seconds after the last finished
\* submission of X is rejected with recentlyProcessed and sends nothing, also
\* when a submission of another identifier finished in between.
C30_CooldownPerIdentifier ==
  [][(/\ ScanSubmitClick
      /\ scanCalls = << >>
      /\ confirmedIsbn # NoText
      /\ lastFinishedIsbn # NoText
      /\ lastFinishedIsbn # confirmedIsbn
      /\ finishedAt[confirmedIsbn] # Never
      /\ now - finishedAt[confirmedIsbn] < RECENT_PROCESSED_ISBN_IGNORE_MILLISECONDS)
     => (registerRequestStatus' = "recentlyProcessed" /\ scanCalls' = << >>)]_vars

\* ------------------------------------- claims on identifier-less candidates
Occurrences(candidates, candidate) ==
  Cardinality({i \in 1..Len(candidates) : candidates[i] = candidate})

\* C29: every candidate without identifier of the payload is an entry of its
\* own in the merged list, and the list holds one candidate for each
\* identifier of the payload.
C29_NullIdentifierNeverMerged ==
  /\ \A j \in 1..Len(candidatesPayload) :
       candidatesPayload[j].isbn = NoText =>
         Occurrences(seriesCandidates, candidatesPayload[j])
           = Occurrences(candidatesPayload, candidatesPayload[j])
  /\ \A isbn \in IsbnsOf(candidatesPayload) \ {NoText} :
       Cardinality({i \in 1..Len(seriesCandidates) : seriesCandidates[i].isbn = isbn}) = 1

\* ------------------------------------------ claims on the refresh signal
ScanRegistrationSucceeds ==
  \E i \in 1..Len(scanCalls), code \in ErrorCodes :
    /\ route = "scan"
    /\ scanCalls[i].stage = "json"
    /\ scanCalls[i].status = 201
    /\ submitRegisterRequestSettles(i, code)

SearchRegistrationSucceeds ==
  \E i \in 1..Len(searchCalls) :
    \E matchedIsbn \in ReportedIsbns(201, searchCalls[i].requestIsbn) :
      route = "search" /\ registerCandidateOwned(i, 201, matchedIsbn)

SeriesRegistrationSucceeds ==
  \E i \in 1..Len(seriesCalls), response \in RegisterResponses :
    route = "series" /\ response.kind = "created" /\ registerCandidateSettles(i, response)

VolumeDeletionSucceeds ==
  \E i \in 1..Len(deleteCalls), response \in DeleteVolumeResponses :
    route = "volumes" /\ response.kind = "deleted" /\ deleteVolumeSettles(i, response)

SeriesDeletionSucceeds ==
  \E i \in 1..Len(seriesDeleteCalls) :
    route = "deleteSeries" /\ deleteAllVolumesSettles(i, "deleted")

\* C27: every successful registration (scan page, search tab, candidate
\* modal) and every successful deletion (one volume, whole series) publishes
\* the library refresh signal.
C27_EveryChangePublishes ==
  [][(\/ ScanRegistrationSucceeds
      \/ SearchRegistrationSucceeds
      \/ SeriesRegistrationSucceeds
      \/ VolumeDeletionSucceeds
      \/ SeriesDeletionSucceeds) => libraryRefreshSignal']_vars

C24_IdentifierUnique ==
  /\ \A volume \in storeVolumes : \A other \in storeVolumes :
       volume.isbn = other.isbn => volume = other
  /\ [][\A isbn \in VolumeIsbns, book \in BookRecords :
          (insertVolume(isbn, book) /\ isbn \in StoredIsbns) =>
            /\ storeResponse'.status = 409
            /\ storeResponse'.code = "VOLUME_ALREADY_EXISTS"
            /\ UNCHANGED <<storeSeries, storeVolumes, storeClock>>]_vars

\* a stored identifier was registered again, for another series
C24_Witness ==
  /\ storeResponse.status = 409
  /\ storeVolumes # {}
  /\ Cardinality(storeSeries) = 1

\* C25 as stated: in every reachable store state a series exists if and only
\* if at least one volume belongs to it.
C25_SeriesIffVolume ==
  /\ \A series_id \in storeSeries : VolumesOfSeries(series_id) # {}
  /\ \A volume \in storeVolumes : volume.series_id \in storeSeries

\* C25: in every reachable store state every volume belongs to an existing
\* series; a registration leaves the series of its volume existing, a
\* whole-series deletion removes the series together with all of its volumes,
\* and a single-volume deletion removes no series, so a series whose last
\* volume was deleted that way remains with zero volumes.
C25_VolumesHaveSeries ==
  /\ \A volume \in storeVolumes : volume.series_id \in storeSeries
  /\ [][/\ \A isbn \in VolumeIsbns, book \in BookRecords :
             (insertVolume(isbn, book) /\ isbn \notin StoredIsbns) =>
               /\ book.series_id \in storeSeries'
               /\ \E volume \in VolumesOfSeries(book.series_id)' : volume.isbn = isbn
        /\ \A series_id \in SeriesIds :
             (deleteSeriesWithVolumes(series_id) /\ series_id \in storeSeries) =>
               /\ series_id \notin storeSeries'
               /\ VolumesOfSeries(series_id)' = {}
        /\ \A isbn \in VolumeIsbns :
             deleteVolumeByIdentifier(isbn) => UNCHANGED storeSeries]_vars

\* the last volume of a series was deleted alone and the series is still there
C25_Witness ==
  /\ storeResponse.status = 200
  /\ \E series_id \in storeSeries : VolumesOfSeries(series_id) = {}
  /\ storeClock > 0

\* the rule of C26 for the volume rows of one series and the url reported
ClaimedRepresentative(rows, url) ==
  LET first == {volume \in rows : volume.volume_number = 1 /\ volume.cover_url # Null}
      covered == {volume \in rows : volume.cover_url # Null}
  IN  /\ IF first # {} THEN \E volume \in first : url = volume.cover_url
         ELSE IF covered # {}
           THEN \E volume \in covered :
                  /\ url = volume.cover_url
                  /\ \A other \in covered : volume.registered_at <= other.registered_at
         ELSE url = Null
      /\ (url = Null) <=> (covered = {})

C21_OwnershipClassification ==
  [][(searchAnswer' # searchAnswer /\ searchAnswer' # NoAnswer) =>
       \A k \in 1..Len(searchAnswer') :
         LET candidate == searchAnswer'[k]
             claimed == IF candidate.isbn = NoText THEN "unknown"
                        ELSE IF candidate.isbn \in StoredIsbns THEN "owned"
                        ELSE "not-owned"
         IN  /\ candidate.owned = (CASE claimed = "unknown" -> "unknown"
                                     [] claimed = "owned" -> "true"
                                     [] OTHER -> "false")
             /\ getCandidateOwnedLabel(candidate) = claimed]_vars

\* X was registered with success and a search evaluated afterwards is on its
\* way with X owned, Y not owned and the candidate without identifier unknown
C21_Witness ==
  /\ IsbnX \in StoredIsbns
  /\ IsbnY \notin StoredIsbns
  /\ searchAnswer # NoAnswer
  /\ searchAnswer[1].owned = "true"
  /\ searchAnswer[4].owned = "true"
  /\ searchAnswer[2].owned = "unknown"
  /\ searchAnswer[3].owned = "false"

\* C22: whenever no search and no registration request is in flight, no
\* displayed candidate whose identifier is in the store is classified
\* not-owned.
C22_NoStaleOwnership ==
  (searchFetches = << >> /\ searchCalls = << >>) =>
    \A k \in 1..Len(searchCandidates) :
      searchCandidates[k].isbn \in StoredIsbns =>
        getCandidateOwnedLabel(searchCandidates[k]) # "not-owned"

\* ------------------------------------------------------ claims on the locks
\* C31: a single-flight lock is held exactly while a request of its surface is
\* pending, the submitting or deleting flag is set only then, so no reachable
\* state holds a lock with no request or dialog pending; every outcome of a
\* request (and a cancelled confirm dialog) leaves the lock released, and when
\* every pending request settles each lock is eventually free again.
\* LockHeld(isbn): a lock of the page is held, the lock of the volume isbn on
\* the page of the registered volumes (a behaviour stays on one page).
LockHeld(isbn) ==
  \/ isSubmittingRegisterRef
  \/ isRegisteringRef
  \/ isDeletingRef
  \/ isbn \in deletingIsbnSetRef

C31_LocksReleased ==
  /\ [](/\ isSubmittingRegisterRef = (scanCalls # << >>)
        /\ isSubmittingRegister = (scanCalls # << >>)
        /\ isRegisteringRef = (searchCalls # << >>)
        /\ (registeringCandidateKey # NoKey => searchCalls # << >>)
        /\ isDeletingRef = (seriesDeleteCalls # << >>)
        /\ isDeleting = (seriesDeleteCalls # << >>)
        /\ deletingIsbnSetRef = {deleteCalls[i].isbn : i \in 1..Len(deleteCalls)}
        /\ deletingByIsbn = deletingIsbnSetRef)
  /\ \A isbn \in VolumeIsbns : LockHeld(isbn) ~> ~LockHeld(isbn)

\* a submission of the scan page has ended and the page has accepted the
\* next one
C31_Witness ==
  /\ route = "scan"
  /\ registerRequestStatus = "idle"
  /\ isSubmittingRegisterRef
  /\ lastFinishedIsbn # NoText

\* ------------------------------------- claims on the scan-page submission
\* C32: while a submission of the scan page is in flight the request status
\* is idle with no message, and no step changes them until the flight ends;
\* the step that ends the flight sets the status to success, alreadyExists,
\* invalidIsbn or failure, never idle; recentlyProcessed and the local
\* invalidIsbn are set only by steps taken with nothing in flight.
C32_SubmissionStateMachine ==
  /\ [](scanCalls # << >> =>
          registerRequestStatus = "idle" /\ registerRequestMessage = Null)
  /\ [][/\ (scanCalls # << >> /\ scanCalls' # << >>) =>
             UNCHANGED <<registerRequestStatus, registerRequestMessage>>
        /\ (scanCalls # << >> /\ scanCalls' = << >>) =>
             /\ registerRequestStatus' \in
                  {"success", "alreadyExists", "invalidIsbn", "failure"}
             /\ registerRequestMessage' # Null
        /\ (/\ registerRequestStatus' # registerRequestStatus
            /\ registerRequestStatus' = "recentlyProcessed") =>
             scanCalls = << >> /\ scanCalls' = << >>
        /\ (/\ scanCalls = << >>
            /\ <<registerRequestStatus, registerRequestMessage>>' #
                 <<registerRequestStatus, registerRequestMessage>>
            /\ scanCalls' = << >>) =>
             registerRequestStatus' \in {"recentlyProcessed", "invalidIsbn"}]_vars

\* a submission is in flight, answered but its body not yet read, after an
\* earlier one has ended with a final status
C32_Witness ==
  /\ route = "scan"
  /\ scanCalls # << >>
  /\ scanCalls[1].stage = "json"
  /\ lastFinishedIsbn # NoText
  /\ registerRequestStatus = "idle"

\* C33: the cooldown record is written only when a response arrives, and then
\* it names the identifier that was sent, not the identifier confirmed by a
\* scan made meanwhile, with the time of the response; with nothing in flight
\* a submission of another identifier than the recorded one is sent at once,
\* and a submission of the recorded one is rejected with recentlyProcessed
\* until 10 seconds have passed since that response.
C33_CooldownNamesSentIdentifier ==
  [][/\ \A i \in 1..Len(scanCalls) :
          (/\ Len(scanCalls') = Len(scanCalls)
           /\ scanCalls[i].stage = "fetch"
           /\ scanCalls'[i].stage = "json") =>
            /\ latestProcessedIsbnRef' = scanCalls[i].requestIsbn
            /\ latestProcessedAtMillisecondsRef' = now
     /\ (<<latestProcessedIsbnRef, latestProcessedAtMillisecondsRef>>' #
           <<latestProcessedIsbnRef, latestProcessedAtMillisecondsRef>>) =>
          \E i \in 1..Len(scanCalls) :
            /\ Len(scanCalls') = Len(scanCalls)
            /\ scanCalls[i].stage = "fetch"
            /\ scanCalls'[i].stage = "json"
     /\ (/\ ScanSubmitClick
         /\ scanCalls = << >>
         /\ isNormalizedIsbn(confirmedIsbn)
         /\ latestProcessedIsbnRef # NoText) =>
          IF /\ confirmedIsbn = latestProcessedIsbnRef
             /\ now - latestProcessedAtMillisecondsRef
                  < RECENT_PROCESSED_ISBN_IGNORE_MILLISECONDS
            THEN registerRequestStatus' = "recentlyProcessed" /\ scanCalls' = << >>
            ELSE PostIssuedFor(confirmedIsbn)]_vars

\* a scan confirmed Y while the request for X was in flight; its response has
\* arrived and the record names X
C33_Witness ==
  /\ route = "scan"
  /\ Len(scanCalls) = 1
  /\ scanCalls[1].requestIsbn = IsbnX
  /\ scanCalls[1].stage = "json"
  /\ confirmedIsbn = IsbnY
  /\ latestProcessedIsbnRef = IsbnX
  /\ latestProcessedAtMillisecondsRef = now

\* C34: a submission rejected as recentlyProcessed changes nothing but the
\* status and the message: the lock is not taken, no request is sent, and the
\* recorded identifier and its time stay as they were, so the moment at which
\* the identifier can be submitted again is not moved.
C34_RejectionChangesOnlyStatus ==
  [][(ScanSubmitClick /\ registerRequestStatus' = "recentlyProcessed") =>
       /\ registerRequestMessage' = "REGISTER_IGNORED_RECENT_MESSAGE"
       /\ UNCHANGED <<isSubmittingRegisterRef, isSubmittingRegister, scanCalls,
                      latestProcessedIsbnRef, latestProcessedAtMillisecondsRef,
                      confirmedIsbn, isCameraActive, scanResult, latestScanTextRef,
                      isbnErrorMessage>>
       /\ UNCHANGED <<libraryVars, route, storeVars, deleteSeriesVars, clockVars, searchVars,
                      seriesVars>>]_vars

\* a submission was rejected some time after the response that started the
\* window, and the window still counts from that response
C34_Witness ==
  /\ route = "scan"
  /\ registerRequestStatus = "recentlyProcessed"
  /\ scanCalls = << >>
  /\ ~isSubmittingRegisterRef
  /\ latestProcessedIsbnRef = confirmedIsbn
  /\ now > latestProcessedAtMillisecondsRef
  /\ now - latestProcessedAtMillisecondsRef < RECENT_PROCESSED_ISBN_IGNORE_MILLISECONDS

\* ------------------------------------------- claims on the volume deletes
\* a press that sends the DELETE for isbn
VolumeDeleteFor(isbn) ==
  /\ VolumeDeleteClick
  /\ deleteCalls' = Append(deleteCalls, [isbn |-> isbn])

\* C35: at most one delete is pending per identifier, the locked set is the
\* set of the identifiers with a pending DELETE and the set shown as deleting
\* is a subset of it, so both are empty when no request is pending; no press
\* can start a second delete of a locked identifier, while the delete of any
\* other displayed volume can be started with a delete in flight.
C35_DeleteLockPerIdentifier ==
  /\ \A i \in 1..Len(deleteCalls), j \in 1..Len(deleteCalls) :
       i # j => deleteCalls[i].isbn # deleteCalls[j].isbn
  /\ deletingIsbnSetRef = {deleteCalls[i].isbn : i \in 1..Len(deleteCalls)}
  /\ deletingByIsbn \subseteq deletingIsbnSetRef
  /\ (deleteCalls = << >> => deletingIsbnSetRef = {} /\ deletingByIsbn = {})
  /\ \A k \in 1..Len(volumes) :
       (route = "volumes" /\ Len(deleteCalls) < MaxCalls) =>
         IF volumes[k].isbn \in deletingIsbnSetRef
           THEN ~ENABLED VolumeDeleteFor(volumes[k].isbn)
           ELSE ENABLED VolumeDeleteFor(volumes[k].isbn)

\* the deletes of two volumes are in flight together
C35_Witness ==
  /\ route = "volumes"
  /\ Len(deleteCalls) = 2
  /\ deleteCalls[1].isbn # deleteCalls[2].isbn
  /\ deletingByIsbn = {deleteCalls[1].isbn, deleteCalls[2].isbn}

\* the list without the volumes of identifier isbn, the others in their order
WithoutIsbn(list, isbn) ==
  SelectSeq(list, LAMBDA currentVolume : currentVolume.isbn # isbn)

LibraryDisplayed == <<seriesList, libraryErrorMessage, libraryIsLoading>>
SeriesDisplayed == <<seriesCandidates, seriesErrorMessage, seriesIsLoading>>

\* the request started last is the only one that may not be aborted
LatestOnly(fetches) == \A i \in 1..Len(fetches) - 1 : fetches[i].aborted

\* a request that is not aborted is running
Live(fetches) == \E i \in 1..Len(fetches) : ~fetches[i].aborted

\* this step starts a request and aborts every other one
NewRequest(fetches, fetchesAfter) ==
  /\ Len(fetchesAfter) > Len(fetches)
  /\ ~fetchesAfter[Len(fetchesAfter)].aborted
  /\ LatestOnly(fetchesAfter)

\* this step is the answer to the request started last, which is not aborted
LatestSettles(fetches, fetchesAfter) ==
  /\ fetches # << >>
  /\ ~fetches[Len(fetches)].aborted
  /\ fetchesAfter = SubSeq(fetches, 1, Len(fetches) - 1)

\* C37: a response to a superseded fetch never updates displayed state: in
\* the library tab and in the candidate section every request but the one
\* started last is aborted, the list, the error message and the loading flag
\* change only when a request starts or when the latest request settles, the
\* loading flag is up exactly while the latest request runs, and once it has
\* settled the list is an answer to the keyword in force, or empty with an
\* error message
C37_SupersededFetchIgnored ==
  /\ [](libraryMounted =>
          /\ LatestOnly(libraryFetches)
          /\ libraryIsLoading = Live(libraryFetches)
          /\ ~libraryIsLoading =>
               IF libraryErrorMessage = Null
                 THEN seriesList \in LibraryAnswers(normalizedSearchKeyword)
                 ELSE seriesList = << >>)
  /\ [](route = "series" =>
          /\ LatestOnly(candidateFetches)
          /\ seriesIsLoading = Live(candidateFetches))
  /\ [][/\ (libraryMounted /\ libraryMounted' /\ LibraryDisplayed' # LibraryDisplayed) =>
            \/ NewRequest(libraryFetches, libraryFetches')
            \/ LatestSettles(libraryFetches, libraryFetches')
        /\ SeriesDisplayed' # SeriesDisplayed =>
            \/ NewRequest(candidateFetches, candidateFetches')
            \/ LatestSettles(candidateFetches, candidateFetches')]_vars

\* the request for the keyword k was answered and its list is shown while
\* the aborted request of the empty keyword is still on its way
C37_Witness ==
  /\ libraryMounted
  /\ libraryFetches = <<[aborted |-> TRUE, q |-> NoText]>>
  /\ normalizedSearchKeyword = <<"k">>
  /\ ~libraryIsLoading
  /\ seriesList = <<"1">>

\* ------------------------------------------------ claims on the refresh signal
\* the steps in which refreshLibraryIfNeeded runs
ConsumeStep == LibraryMount \/ LibraryShow

\* the reload key and the number of requests before the refresh effect runs:
\* a mount starts from key 0 and sends the first request of the page
KeyBeforeConsume == IF libraryMounted THEN libraryReloadKey ELSE 0
FetchesBeforeConsume == Len(libraryFetches) + (IF libraryMounted THEN 0 ELSE 1)

\* C38: the library refresh signal is one-shot and coalescing: a publish
\* sets it however often it was published, the consume of
\* refreshLibraryIfNeeded finds it set exactly when it was published since
\* the last consume that found it set, clears it, and reloads the library
\* exactly once (one step of the reload key, one new request); a consume
\* that finds it clear reloads nothing, and only a consume clears it
C38_RefreshSignalOneShot ==
  [][/\ LibraryPublished => libraryRefreshSignal'
     /\ (libraryRefreshSignal' /\ ~libraryRefreshSignal) => LibraryPublished
     /\ (libraryRefreshSignal /\ ~libraryRefreshSignal') => ConsumeStep
     /\ ConsumeStep =>
          /\ ~libraryRefreshSignal'
          /\ IF libraryRefreshSignal
               THEN /\ libraryReloadKey' = KeyBeforeConsume + 1
                    /\ Len(libraryFetches') = FetchesBeforeConsume + 1
                    /\ NewRequest(libraryFetches, libraryFetches')
               ELSE /\ libraryReloadKey' = KeyBeforeConsume
                    /\ Len(libraryFetches') = FetchesBeforeConsume
     /\ libraryReloadKey' > libraryReloadKey =>
          \/ ConsumeStep /\ libraryRefreshSignal
          \/ LibraryRetry]_vars

\* the page was opened with the signal set: the signal is cleared, the
\* reload key is 1 and the reload has replaced the first request
C38_Witness ==
  /\ route = "library"
  /\ ~libraryRefreshSignal
  /\ libraryReloadKey = 1
  /\ libraryFetches = <<[aborted |-> TRUE, q |-> NoText], [aborted |-> FALSE, q |-> NoText]>>
  /\ libraryIsLoading
  /\ seriesList = << >>

\* ------------------------------------------------ claims on the search status
\* C39: on the search tab the status "empty" appears only when a search
\* completes successfully with zero candidates, and typing after a failed
\* search leaves the status at "error" or "idle"
C39_EmptyOnlyAfterEmptyResult ==
  [][/\ (searchResultStatus' = "empty" /\ searchResultStatus # "empty") =>
          \E i \in 1..Len(searchFetches) : executeSearchSucceeds(i, << >>)
     /\ (SearchTyping /\ searchResultStatus = "error") =>
          searchResultStatus' \in {"error", "idle"}]_vars
====
